---- MODULE Spec2Model ----
(***************************************************************************)
(* Metadata-filtered power-of-two-choice bucketed hash table               *)
(* (hashing_project::tables::p2_metadata_table, LARGE_MD_LOAD = 1,         *)
(* LARGE_BUCKET_MODS = 0).                                                 *)
(*                                                                         *)
(* A worker group (cooperative-groups tile) is one sequential process: its *)
(* lanes run in lockstep and every shared-memory access of an operation is *)
(* one atomic step of the group, followed by the lane-local computation    *)
(* up to the next shared-memory access.  Bit masks are sets of slot        *)
(* indices.                                                                *)
(*                                                                         *)
(* The 64-bit hash of a key is the pair <<low 32 bits, high 32 bits>> the  *)
(* seed gives it, fixed at construction; get_first_bucket and              *)
(* get_second_bucket reduce its halves modulo n_buckets.  hist records the *)
(* call, the effect (the store or compare-and-swap that changes a slot)    *)
(* and the return of every operation; no action reads it.                  *)
(***************************************************************************)
EXTENDS Integers, FiniteSets, Sequences, TLC

\* ------------------------------------------------------------------ bounds
NGroups == 2        \* worker groups that run concurrently
MaxOps  == 2        \* operations issued after the scripted prefix
KeyBits == 18       \* width of the Key type (tags are its low 16 bits)
SizeBits == 10      \* width the model gives uint64_t in generate_on_device
MaxTagSteps == 4    \* iterations after which the model stops following get_tag
MaxSeqOps == 3      \* operations issued one after another past the prefix

\* ------------------------------------------------------- program constants
bucket_size == 8
P2_MD_CUTOFF_NUM == 3
P2_MD_CUTOFF_DEN == 4
TagBits == 16
LockWordBits == 64

defaultKey == 0
tombstoneKey == 2^KeyBits - 1
holdingKey == tombstoneKey - 1
defaultVal == 0

Groups == 1..NGroups
Slots == 0..(bucket_size - 1)

\* Keys the worker groups operate on: 1 and 2^16 share tag 1.
OpKeys == {1, 2^TagBits}
\* Keys of the scripted prefix; FillKey(b, i) has both candidate buckets = b.
FillKey(b, i) == 100 * (b + 1) + i
FillKeys == {FillKey(b, i) : b \in 0..1, i \in Slots}
FillHash(k) == <<(k \div 100) - 1, (k \div 100) - 1>>

VARIABLES
  n_buckets,  \* number of buckets, fixed at construction
  metadata,   \* metadata[b][i]: 16-bit tag of slot i of bucket b
  buckets,    \* buckets[b][i]: the pair [key, val] of slot i of bucket b
  locks,      \* locks[w]: set of bits set in 64-bit lock word w
  hashes,     \* hashes[k]: <<low 32 bits, high 32 bits>> of hash(k, seed)
  grp,        \* grp[g]: operation, position and locals of worker group g
  script,     \* operations of the sequential prefix still to be issued
  nops,       \* operations issued after the prefix
  hist        \* invocation and response events, in order

vars == <<n_buckets, metadata, buckets, locks, hashes, grp, script, nops, hist>>

\* --------------------------------------------------------------- tag helpers
Buckets == 0..(n_buckets - 1)

get_empty_tag == defaultKey % 2^TagBits
get_tombstone_tag == tombstoneKey % 2^TagBits

RECURSIVE get_tag(_)
get_tag(key) ==
  LET key_tag == key % 2^TagBits
  IN IF key_tag = get_empty_tag \/ key_tag = get_tombstone_tag
     THEN get_tag((key + 1) % 2^KeyBits)
     ELSE key_tag

\* ------------------------------------------------------- bucket selection
\* mutant: the primary bucket taken from the high half of the hash
get_first_bucket_HighHalf(h) == h[2] % n_buckets
get_first_bucket(h) == h[1] % n_buckets
get_second_bucket(h) == h[2] % n_buckets

Min(S) == CHOOSE x \in S : \A y \in S : x <= y

\* ------------------------------------------------------------- lock table
LockHeld(b) == (b % LockWordBits) \in locks[b \div LockWordBits]

\* --------------------------------------------------------------- group state
\* op, pc: the operation and the next shared-memory access; key, val: its
\* arguments; phase: "short" in the primary shortcut loop, "two" in the
\* two-bucket loop; bk: 0 while working on bucket_0, 1 on bucket_1; cur: slot
\* index the elected leader works on; e0..m1: the masks of the last probes;
\* reloads: how many times the insert loops have gone back to their probe.
Idle == [op |-> "idle", pc |-> "idle", key |-> 0, val |-> 0, phase |-> "none",
         bk |-> 0, cur |-> 0,
         e0 |-> {}, t0 |-> {}, m0 |-> {}, e1 |-> {}, t1 |-> {}, m1 |-> {},
         ret |-> FALSE, reloads |-> 0]

\* upsert_no_lock, remove_no_lock and find_with_reference_no_lock: the copies
\* of the three operations without stall_lock and unlock
NoLockOps == {"upsert_no_lock", "remove_no_lock", "find_no_lock"}
\* the first shared-memory access of operation op
FirstPc(op) ==
  CASE op \in {"find", "find_no_lock"} -> "q_tags"
    [] op = "upsert_no_lock" -> "load0"
    [] op = "remove_no_lock" -> "r_load"
    [] OTHER -> "lock"
\* the access that follows the lock: the caller's increment queries first
AfterLock(op) ==
  CASE op = "upsert" -> "load0"
    [] op = "increment" -> "q_tags"
    [] OTHER -> "r_load"

bucket_0(l) == get_first_bucket(hashes[l.key])
bucket_1(l) == get_second_bucket(hashes[l.key])
BucketOf(l) == IF l.bk = 0 THEN bucket_0(l) ELSE bucket_1(l)
EmptyOf(l) == IF l.bk = 0 THEN l.e0 ELSE l.e1
TombOf(l) == IF l.bk = 0 THEN l.t0 ELSE l.t1
MatchOf(l) == IF l.bk = 0 THEN l.m0 ELSE l.m1

\* bucket_size - __popc(bucket_0_empty): the shortcut loop's occupancy
ShortSize(l) == bucket_size - Cardinality(l.e0)
\* mutant: the two-bucket loop's occupancy of bucket_0 counts tombstones in
bucket_0_size_EmptyOnly(l) == bucket_size - Cardinality(l.e0)
\* bucket_size - __popc(empty | tombstone): the two-bucket loop's occupancy
bucket_0_size(l) == bucket_size - Cardinality(l.e0 \cup l.t0)
bucket_1_size(l) == bucket_size - Cardinality(l.e1 \cup l.t1)
\* mutant: the shortcut test on the occupancy that leaves tombstones out
BelowCutoff_Never(l) == FALSE
BelowCutoff_LiveOnly(l) ==
  bucket_0_size(l) * P2_MD_CUTOFF_DEN < bucket_size * P2_MD_CUTOFF_NUM
\* while (bucket_0_size < bucket_size*P2_MD_CUTOFF)
BelowCutoff(l) == ShortSize(l) * P2_MD_CUTOFF_DEN < bucket_size * P2_MD_CUTOFF_NUM

\* History events: "inv" (call), "ret" (return, with result ret and returned
\* value rval) and "eff" (the step at which a writer changes slot i of bucket
\* b: how = "insert", "update" or "erase").
Ev(kind, g, op, key, val, ret, rval) ==
  [kind |-> kind, g |-> g, op |-> op, key |-> key, val |-> val,
   ret |-> ret, rval |-> rval, how |-> "none", b |-> 0, i |-> 0]

Effect(g, l, how) ==
  [kind |-> "eff", g |-> g, op |-> l.op, key |-> l.key, val |-> l.val,
   ret |-> TRUE, rval |-> defaultVal, how |-> how,
   b |-> BucketOf(l), i |-> l.cur]

\* ------------------------------------------------ probe of one tag bucket
load_fill_ballots_huge(b, key) ==
  [e |-> {i \in Slots : metadata[b][i] = get_empty_tag},
   t |-> {i \in Slots : metadata[b][i] = get_tombstone_tag},
   m |-> {i \in Slots : metadata[b][i] = get_tag(key)}]

\* ---------------------------------------- control flow of upsert_replace
Reload(l) == [l EXCEPT !.pc = "load0", !.bk = 0, !.reloads = @ + 1]

\* mutant: match_empty starts at the highest set bit of its mask
StartEmpty_Highest(l, b) ==
  LET E == IF b = 0 THEN l.e0 ELSE l.e1
  IN IF E # {}
     THEN [l EXCEPT !.pc = "me_cas", !.bk = b,
                    !.cur = CHOOSE x \in E : \A y \in E : y <= x]
     ELSE Reload(l)
\* match_empty on bucket b: its first leader is the lowest set bit of the mask
StartEmpty(l, b) ==
  LET E == IF b = 0 THEN l.e0 ELSE l.e1
  IN IF E # {} THEN [l EXCEPT !.pc = "me_cas", !.bk = b, !.cur = Min(E)]
     ELSE Reload(l)

\* mutant: a claim tries the empty slots before the tombstoned ones
StartTomb_EmptyFirst(l, b) ==
  LET E == IF b = 0 THEN l.e0 ELSE l.e1
      T == IF b = 0 THEN l.t0 ELSE l.t1
  IN IF E # {} THEN [l EXCEPT !.pc = "me_cas", !.bk = b, !.cur = Min(E)]
     ELSE IF T # {} THEN [l EXCEPT !.pc = "mt_cas", !.bk = b, !.cur = Min(T)]
     ELSE Reload(l)
\* match_tombstone first, then match_empty, on bucket b
StartTomb(l, b) ==
  LET T == IF b = 0 THEN l.t0 ELSE l.t1
  IN IF T # {} THEN [l EXCEPT !.pc = "mt_cas", !.bk = b, !.cur = Min(T)]
     ELSE StartEmpty(l, b)

\* mutant: on equal counts the claim goes to bucket_1
StartClaim_SecondaryOnTie(l) ==
  IF l.phase = "short" THEN StartTomb(l, 0)
  ELSE StartTomb(l, IF bucket_0_size(l) < bucket_1_size(l) THEN 0 ELSE 1)
\* if (bucket_0_size <= bucket_1_size) claim in bucket_0 else in bucket_1
StartClaim(l) ==
  IF l.phase = "short" THEN StartTomb(l, 0)
  ELSE StartTomb(l, IF bucket_0_size(l) <= bucket_1_size(l) THEN 0 ELSE 1)

\* upsert_existing returned -1 on bucket l.bk (or its match mask was empty)
AfterUpsertExisting(l) ==
  IF l.bk = 0 /\ l.phase = "two" /\ l.m1 # {}
  THEN [l EXCEPT !.pc = "ue_load", !.bk = 1, !.cur = Min(l.m1)]
  ELSE StartClaim(l)

\* mutant: the loop body goes to the claims without upsert_existing on bucket_0
LoopBody_NoExisting(l) == AfterUpsertExisting([l EXCEPT !.bk = 0])
\* top of a loop body: if (__popc(bucket_0_match) != 0) upsert_existing(...)
LoopBody(l) ==
  IF l.m0 # {} THEN [l EXCEPT !.pc = "ue_load", !.bk = 0, !.cur = Min(l.m0)]
  ELSE AfterUpsertExisting([l EXCEPT !.bk = 0])

\* mutant: the copy's loop runs only while both buckets have a free slot
NoLockLoopCond_Both(l) ==
  bucket_0_size(l) # bucket_size /\ bucket_1_size(l) # bucket_size
\* upsert_no_lock's copy of the two-bucket loop condition
NoLockLoopCond(l) ==
  bucket_0_size(l) # bucket_size \/ bucket_1_size(l) # bucket_size
\* upsert_no_lock's copy of the shortcut loop condition
NoLockBelowCutoff(l) ==
  ShortSize(l) * P2_MD_CUTOFF_DEN < bucket_size * P2_MD_CUTOFF_NUM
\* the shortcut test of the code that runs operation l.op
ShortcutCond(l) ==
  IF l.op \in {"upsert_no_lock", "increment"} THEN NoLockBelowCutoff(l)
  ELSE BelowCutoff(l)

\* while (bucket_0_size != bucket_size || bucket_1_size != bucket_size)
TwoLoopHead(l) ==
  IF IF l.op \in {"upsert_no_lock", "increment"} THEN NoLockLoopCond(l)
     ELSE bucket_0_size(l) # bucket_size \/ bucket_1_size(l) # bucket_size
  THEN LoopBody(l)
  ELSE [l EXCEPT !.pc = "unlock", !.ret = FALSE]

\* mutant: the leader that lost is elected again (its bit stays in the mask)
NextCandidate_SameLeader(l, M, fallback) == l
\* next candidate of mask M after the leader at l.cur lost, else the fallback
NextCandidate(l, M, fallback) ==
  LET rest == {i \in M : i > l.cur}
  IN IF rest # {} THEN [l EXCEPT !.cur = Min(rest)] ELSE fallback

\* ------------------------------------------------------------ invocation
LowestIdle(g) == /\ grp[g].op = "idle"
                 /\ \A h \in Groups : h < g => grp[h].op # "idle"

\* mutant: find_with_reference takes the primary bucket's lock first
Start_FindLocks(g, op, key, val) ==
  /\ grp' = [grp EXCEPT ![g] = [Idle EXCEPT !.op = op, !.key = key, !.val = val,
                                 !.pc = "lock"]]
  /\ hist' = Append(hist, Ev("inv", g, op, key, val, FALSE, defaultVal))
Start(g, op, key, val) ==
  /\ grp' = [grp EXCEPT ![g] = [Idle EXCEPT !.op = op, !.key = key, !.val = val,
                                 !.pc = FirstPc(op)]]
  /\ hist' = Append(hist, Ev("inv", g, op, key, val, FALSE, defaultVal))

\* the sequential prefix: one group issues the scripted operations in order
InvokeScripted ==
  /\ script # <<>>
  /\ \A g \in Groups : grp[g].op = "idle"
  /\ Start(1, Head(script).op, Head(script).key, Head(script).val)
  /\ script' = Tail(script)
  /\ UNCHANGED <<n_buckets, metadata, buckets, locks, hashes, nops>>

Invoke(g) ==
  /\ script = <<>>
  /\ nops < MaxOps
  /\ LowestIdle(g)
  /\ nops = 0 => \A h \in Groups : grp[h].op = "idle"
  /\ \E op \in {"upsert", "remove", "find"} : \E key \in OpKeys :
       Start(g, op, key, IF op = "upsert" THEN nops + 1 ELSE defaultVal)
  /\ nops' = nops + 1
  /\ UNCHANGED <<n_buckets, metadata, buckets, locks, hashes, script>>

Return(g, l, ret, rval) ==
  /\ grp' = [grp EXCEPT ![g] = Idle]
  /\ hist' = Append(hist, Ev("ret", g, l.op, l.key, l.val, ret, rval))

\* ------------------------------------------------------------- lock table
\* the keys group g has locked with lock_key and not unlocked with unlock_key
KeysLockedBy(g) ==
  {hist[m].key : m \in {x \in DOMAIN hist :
      /\ hist[x].kind = "ret" /\ hist[x].g = g /\ hist[x].op = "lock_key"
      /\ \A y \in DOMAIN hist :
           (y > x /\ hist[y].g = g) => ~(hist[y].kind = "ret" /\ hist[y].op = "unlock_key")}}
\* mutant: the lock knows its holder and lets it in again
stall_lock_Reentrant(g) ==
  LET l == grp[g]
      b == bucket_0(l)
  IN /\ l.pc = "lock"
     /\ ~LockHeld(b) \/ \E k \in KeysLockedBy(g) : get_first_bucket(hashes[k]) = b
     /\ locks' = [locks EXCEPT ![b \div LockWordBits] = @ \cup {b % LockWordBits}]
     /\ grp' = [grp EXCEPT ![g] = [l EXCEPT !.pc = AfterLock(l.op)]]
     /\ UNCHANGED <<n_buckets, metadata, buckets, hashes, script, nops, hist>>
\* mutant: the spin ends after one atomicOr, whatever value it returned
stall_lock_NoTest(g) ==
  LET l == grp[g]
      b == bucket_0(l)
  IN /\ l.pc = "lock"
     /\ locks' = [locks EXCEPT ![b \div LockWordBits] = @ \cup {b % LockWordBits}]
     /\ grp' = [grp EXCEPT ![g] = [l EXCEPT !.pc = AfterLock(l.op)]]
     /\ UNCHANGED <<n_buckets, metadata, buckets, hashes, script, nops, hist>>
\* stall_lock: leaves the spin once atomicOr finds the bit clear
stall_lock(g) ==
  LET l == grp[g]
      b == bucket_0(l)
  IN /\ l.pc = "lock"
     /\ ~LockHeld(b)
     /\ locks' = [locks EXCEPT ![b \div LockWordBits] = @ \cup {b % LockWordBits}]
     /\ grp' = [grp EXCEPT ![g] = [l EXCEPT !.pc = AfterLock(l.op)]]
     /\ UNCHANGED <<n_buckets, metadata, buckets, hashes, script, nops, hist>>

\* mutant: the operation clears the lock bit of the secondary bucket
unlock_Secondary(g) ==
  LET l == grp[g]
      b == bucket_1(l)
  IN /\ l.pc = "unlock"
     /\ l.op \notin NoLockOps
     /\ locks' = [locks EXCEPT ![b \div LockWordBits] = @ \ {b % LockWordBits}]
     /\ Return(g, l, l.ret, defaultVal)
     /\ UNCHANGED <<n_buckets, metadata, buckets, hashes, script, nops>>
\* unlock, then the locked operation returns
unlock(g) ==
  LET l == grp[g]
      b == bucket_0(l)
  IN /\ l.pc = "unlock"
     /\ l.op \notin NoLockOps
     /\ locks' = [locks EXCEPT ![b \div LockWordBits] = @ \ {b % LockWordBits}]
     /\ Return(g, l, l.ret, defaultVal)
     /\ UNCHANGED <<n_buckets, metadata, buckets, hashes, script, nops>>

\* ------------------------------------------------- upsert_replace_internal
\* probe of bucket_0: before the shortcut loop, at its reload, and at the
\* reload of the two-bucket loop
UpsertLoad0(g) ==
  LET l == grp[g]
      p == load_fill_ballots_huge(bucket_0(l), l.key)
      l1 == [l EXCEPT !.e0 = p.e, !.t0 = p.t, !.m0 = p.m]
  IN /\ l.pc = "load0"
     /\ grp' = [grp EXCEPT ![g] =
          IF l.phase = "two" THEN [l1 EXCEPT !.pc = "load1"]
          ELSE IF ShortcutCond(l1) THEN LoopBody([l1 EXCEPT !.phase = "short"])
          ELSE [l1 EXCEPT !.phase = "two", !.pc = "load1"]]
     /\ UNCHANGED <<n_buckets, metadata, buckets, locks, hashes, script, nops, hist>>

\* mutant: the upsert waits for the lock bit of bucket_1 before it probes it
UpsertLoad1_LockSecond(g) ==
  LET l == grp[g]
      p == load_fill_ballots_huge(bucket_1(l), l.key)
      l1 == [l EXCEPT !.e1 = p.e, !.t1 = p.t, !.m1 = p.m]
  IN /\ l.pc = "load1"
     /\ ~LockHeld(bucket_1(l))
     /\ grp' = [grp EXCEPT ![g] = TwoLoopHead(l1)]
     /\ UNCHANGED <<n_buckets, metadata, buckets, locks, hashes, script, nops, hist>>
\* probe of bucket_1: before the two-bucket loop and at its reload
UpsertLoad1(g) ==
  LET l == grp[g]
      p == load_fill_ballots_huge(bucket_1(l), l.key)
      l1 == [l EXCEPT !.e1 = p.e, !.t1 = p.t, !.m1 = p.m]
  IN /\ l.pc = "load1"
     /\ grp' = [grp EXCEPT ![g] = TwoLoopHead(l1)]
     /\ UNCHANGED <<n_buckets, metadata, buckets, locks, hashes, script, nops, hist>>

\* mutant: upsert_existing stores into the first slot of its mask without
\* comparing the slot's key
UpsertExistingLoad_TagOnly(g) ==
  LET l == grp[g]
  IN /\ l.pc = "ue_load"
     /\ grp' = [grp EXCEPT ![g] = [l EXCEPT !.pc = "ue_store"]]
     /\ UNCHANGED <<n_buckets, metadata, buckets, locks, hashes, script, nops, hist>>
\* upsert_existing: the leader loads the candidate slot's key
UpsertExistingLoad(g) ==
  LET l == grp[g]
  IN /\ l.pc = "ue_load"
     /\ grp' = [grp EXCEPT ![g] =
          IF buckets[BucketOf(l)][l.cur].key = l.key
          THEN [l EXCEPT !.pc = "ue_store"]
          ELSE NextCandidate(l, MatchOf(l), AfterUpsertExisting(l))]
     /\ UNCHANGED <<n_buckets, metadata, buckets, locks, hashes, script, nops, hist>>

\* upsert_existing: ht_store(&slots[i].val, ext_val)
UpsertExistingStore(g) ==
  LET l == grp[g]
  IN /\ l.pc = "ue_store"
     /\ buckets' = [buckets EXCEPT ![BucketOf(l)][l.cur].val = l.val]
     /\ grp' = [grp EXCEPT ![g] = [l EXCEPT !.pc = "unlock", !.ret = TRUE]]
     /\ hist' = Append(hist, Effect(g, l, "update"))
     /\ UNCHANGED <<n_buckets, metadata, locks, hashes, script, nops>>

\* mutant: the tombstone claim is a plain store of the tag
match_tombstone_NoCAS(g) ==
  LET l == grp[g]
      b == BucketOf(l)
  IN /\ l.pc = "mt_cas"
     /\ metadata' = [metadata EXCEPT ![b][l.cur] = get_tag(l.key)]
     /\ grp' = [grp EXCEPT ![g] = [l EXCEPT !.pc = "write"]]
     /\ UNCHANGED <<n_buckets, buckets, locks, hashes, script, nops, hist>>
\* match_tombstone: the leader's CAS of the tag, tombstone -> get_tag(key)
match_tombstone(g) ==
  LET l == grp[g]
      b == BucketOf(l)
  IN /\ l.pc = "mt_cas"
     /\ IF metadata[b][l.cur] = get_tombstone_tag
        THEN /\ metadata' = [metadata EXCEPT ![b][l.cur] = get_tag(l.key)]
             /\ grp' = [grp EXCEPT ![g] = [l EXCEPT !.pc = "write"]]
        ELSE /\ metadata' = metadata
             /\ grp' = [grp EXCEPT ![g] =
                  NextCandidate(l, TombOf(l), StartEmpty(l, l.bk))]
     /\ UNCHANGED <<n_buckets, buckets, locks, hashes, script, nops, hist>>

\* mutant: the leader's CAS succeeds but match_empty reports no slot
match_empty_Unreported(g) ==
  LET l == grp[g]
      b == BucketOf(l)
  IN /\ l.pc = "me_cas"
     /\ IF metadata[b][l.cur] = get_empty_tag
        THEN metadata' = [metadata EXCEPT ![b][l.cur] = get_tag(l.key)]
        ELSE metadata' = metadata
     /\ grp' = [grp EXCEPT ![g] = NextCandidate(l, EmptyOf(l), Reload(l))]
     /\ UNCHANGED <<n_buckets, buckets, locks, hashes, script, nops, hist>>
\* mutant: the claim is a plain store of the tag, not a compare-and-swap
match_empty_NoCAS(g) ==
  LET l == grp[g]
      b == BucketOf(l)
  IN /\ l.pc = "me_cas"
     /\ metadata' = [metadata EXCEPT ![b][l.cur] = get_tag(l.key)]
     /\ grp' = [grp EXCEPT ![g] = [l EXCEPT !.pc = "write"]]
     /\ UNCHANGED <<n_buckets, buckets, locks, hashes, script, nops, hist>>
\* match_empty: the leader's CAS of the tag, empty -> get_tag(key)
match_empty(g) ==
  LET l == grp[g]
      b == BucketOf(l)
  IN /\ l.pc = "me_cas"
     /\ IF metadata[b][l.cur] = get_empty_tag
        THEN /\ metadata' = [metadata EXCEPT ![b][l.cur] = get_tag(l.key)]
             /\ grp' = [grp EXCEPT ![g] = [l EXCEPT !.pc = "write"]]
        ELSE /\ metadata' = metadata
             /\ grp' = [grp EXCEPT ![g] = NextCandidate(l, EmptyOf(l), Reload(l))]
     /\ UNCHANGED <<n_buckets, buckets, locks, hashes, script, nops, hist>>

\* mutant: the upsert returns from its tag claim without storing the pair
WritePair_Skipped(g) ==
  LET l == grp[g]
  IN /\ l.pc = "write"
     /\ grp' = [grp EXCEPT ![g] = [l EXCEPT !.pc = "unlock", !.ret = TRUE]]
     /\ hist' = Append(hist, Effect(g, l, "insert"))
     /\ UNCHANGED <<n_buckets, metadata, buckets, locks, hashes, script, nops>>
\* mutant: the key of the claimed slot is stored first and the value by a
\* store of its own
WritePair_KeyFirst(g) ==
  LET l == grp[g]
  IN /\ l.pc = "write"
     /\ buckets' = [buckets EXCEPT ![BucketOf(l)][l.cur].key = l.key]
     /\ grp' = [grp EXCEPT ![g] = [l EXCEPT !.pc = "ue_store"]]
     /\ UNCHANGED <<n_buckets, metadata, locks, hashes, script, nops, hist>>
\* ht_store_packed_pair(&slots[pos], {key, val}) into the claimed slot
WritePair(g) ==
  LET l == grp[g]
  IN /\ l.pc = "write"
     /\ buckets' = [buckets EXCEPT ![BucketOf(l)][l.cur] =
                                      [key |-> l.key, val |-> l.val]]
     /\ grp' = [grp EXCEPT ![g] = [l EXCEPT !.pc = "unlock", !.ret = TRUE]]
     /\ hist' = Append(hist, Effect(g, l, "insert"))
     /\ UNCHANGED <<n_buckets, metadata, locks, hashes, script, nops>>

\* ------------------------------------------------------------------ remove
\* mutant: a remove that found nothing in bucket_1 tombstones a slot anyway
AfterErase_SetsTombstone(l) ==
  IF l.bk = 0 THEN [l EXCEPT !.pc = "r_load", !.bk = 1]
  ELSE [l EXCEPT !.pc = "set_tomb"]
\* mutant: remove gives up after the primary bucket
AfterErase_PrimaryOnly(l) == [l EXCEPT !.pc = "unlock", !.ret = FALSE]
\* erase_reference found nothing in bucket l.bk: go on to bucket_1, or fail
AfterErase(l) ==
  IF l.bk = 0 THEN [l EXCEPT !.pc = "r_load", !.bk = 1]
  ELSE [l EXCEPT !.pc = "unlock", !.ret = FALSE]

\* probe of bucket_0, then of bucket_1 (into the same three mask variables)
RemoveLoad(g) ==
  LET l == grp[g]
      p == load_fill_ballots_huge(BucketOf(l), l.key)
      l1 == [l EXCEPT !.e0 = p.e, !.t0 = p.t, !.m0 = p.m]
  IN /\ l.pc = "r_load"
     /\ grp' = [grp EXCEPT ![g] =
          IF p.m # {} THEN [l1 EXCEPT !.pc = "er_load", !.cur = Min(p.m)]
          ELSE AfterErase(l1)]
     /\ UNCHANGED <<n_buckets, metadata, buckets, locks, hashes, script, nops, hist>>

\* erase_reference: load of the candidate slot's key
EraseReferenceLoad(g) ==
  LET l == grp[g]
  IN /\ l.pc = "er_load"
     /\ grp' = [grp EXCEPT ![g] =
          IF buckets[BucketOf(l)][l.cur].key = l.key
          THEN [l EXCEPT !.pc = "er_cas"]
          ELSE NextCandidate(l, l.m0, AfterErase(l))]
     /\ UNCHANGED <<n_buckets, metadata, buckets, locks, hashes, script, nops, hist>>

\* mutant: the erase stores the tombstone tag and leaves the slot key to a
\* later store
EraseReferenceCAS_TagFirst(g) ==
  LET l == grp[g]
      b == BucketOf(l)
  IN /\ l.pc = "er_cas"
     /\ IF buckets[b][l.cur].key = l.key
        THEN /\ metadata' = [metadata EXCEPT ![b][l.cur] = get_tombstone_tag]
             /\ grp' = [grp EXCEPT ![g] = [l EXCEPT !.pc = "set_tomb"]]
             /\ hist' = Append(hist, Effect(g, l, "erase"))
        ELSE /\ metadata' = metadata
             /\ grp' = [grp EXCEPT ![g] = NextCandidate(l, l.m0, AfterErase(l))]
             /\ hist' = hist
     /\ UNCHANGED <<n_buckets, buckets, locks, hashes, script, nops>>
\* mutant: the erase puts the empty key back into the slot
EraseReferenceCAS_ToEmpty(g) ==
  LET l == grp[g]
      b == BucketOf(l)
  IN /\ l.pc = "er_cas"
     /\ IF buckets[b][l.cur].key = l.key
        THEN /\ buckets' = [buckets EXCEPT ![b][l.cur].key = defaultKey]
             /\ grp' = [grp EXCEPT ![g] = [l EXCEPT !.pc = "set_tomb"]]
             /\ hist' = Append(hist, Effect(g, l, "erase"))
        ELSE /\ buckets' = buckets
             /\ grp' = [grp EXCEPT ![g] = NextCandidate(l, l.m0, AfterErase(l))]
             /\ hist' = hist
     /\ UNCHANGED <<n_buckets, metadata, locks, hashes, script, nops>>
\* erase_reference: CAS of the slot key, ext_key -> tombstoneKey
EraseReferenceCAS(g) ==
  LET l == grp[g]
      b == BucketOf(l)
  IN /\ l.pc = "er_cas"
     /\ IF buckets[b][l.cur].key = l.key
        THEN /\ buckets' = [buckets EXCEPT ![b][l.cur].key = tombstoneKey]
             /\ grp' = [grp EXCEPT ![g] = [l EXCEPT !.pc = "set_tomb"]]
             /\ hist' = Append(hist, Effect(g, l, "erase"))
        ELSE /\ buckets' = buckets
             /\ grp' = [grp EXCEPT ![g] = NextCandidate(l, l.m0, AfterErase(l))]
             /\ hist' = hist
     /\ UNCHANGED <<n_buckets, metadata, locks, hashes, script, nops>>

\* mutant: remove leaves the erased slot's tag as it was
set_tombstone_Skipped(g) ==
  LET l == grp[g]
  IN /\ l.pc = "set_tomb"
     /\ grp' = [grp EXCEPT ![g] = [l EXCEPT !.pc = "unlock", !.ret = TRUE]]
     /\ UNCHANGED <<n_buckets, metadata, buckets, locks, hashes, script, nops, hist>>
\* set_tombstone(erase_index): release store of the tombstone tag
set_tombstone(g) ==
  LET l == grp[g]
  IN /\ l.pc = "set_tomb"
     /\ metadata' = [metadata EXCEPT ![BucketOf(l)][l.cur] = get_tombstone_tag]
     /\ grp' = [grp EXCEPT ![g] = [l EXCEPT !.pc = "unlock", !.ret = TRUE]]
     /\ UNCHANGED <<n_buckets, buckets, locks, hashes, script, nops, hist>>

\* ------------------------------------------------------ find_with_reference
\* the caller's increment goes on from its query to
\* upsert_no_lock(key, old + 1), old being the value found or else the default
IncrementAfterFind(l, found, v) ==
  [l EXCEPT !.pc = "load0", !.bk = 0, !.cur = 0, !.m0 = {},
            !.val = (IF found THEN v ELSE defaultVal) + 1]
\* the query is over: return true with the value, or false
FindReturn(g, l, found, v) ==
  IF l.op = "increment"
  THEN grp' = [grp EXCEPT ![g] = IncrementAfterFind(l, found, v)] /\ hist' = hist
  ELSE Return(g, l, found, v)

\* query_md_and_bucket_large: the one wide load of the bucket's tags
QueryTags(g) ==
  LET l == grp[g]
      m == {i \in Slots : metadata[BucketOf(l)][i] = get_tag(l.key)}
  IN /\ l.pc = "q_tags"
     /\ IF m # {}
        THEN /\ grp' = [grp EXCEPT ![g] = [l EXCEPT !.pc = "q_pair", !.m0 = m,
                                                    !.cur = Min(m)]]
             /\ hist' = hist
        ELSE IF l.bk = 0
        THEN /\ grp' = [grp EXCEPT ![g] = [l EXCEPT !.bk = 1, !.m0 = {}]]
             /\ hist' = hist
        ELSE FindReturn(g, l, FALSE, defaultVal)
     /\ UNCHANGED <<n_buckets, metadata, buckets, locks, hashes, script, nops>>

\* mutant: a tag match is taken as a hit without comparing the key
query_verify_TagOnly(pair, key) == TRUE
\* if (loaded_pair.key == upsert_key): the verify of tag-then-verify
query_verify(pair, key) == pair.key = key

\* query_md_and_bucket_large: packed load of a tag-matching slot's pair
QueryPair(g) ==
  LET l == grp[g]
      pair == buckets[BucketOf(l)][l.cur]
      rest == {i \in l.m0 : i > l.cur}
  IN /\ l.pc = "q_pair"
     /\ IF query_verify(pair, l.key) THEN FindReturn(g, l, TRUE, pair.val)
        ELSE IF rest # {}
        THEN /\ grp' = [grp EXCEPT ![g] = [l EXCEPT !.cur = Min(rest)]]
             /\ hist' = hist
        ELSE IF l.bk = 0
        THEN /\ grp' = [grp EXCEPT ![g] = [l EXCEPT !.pc = "q_tags", !.bk = 1,
                                                    !.m0 = {}]]
             /\ hist' = hist
        ELSE FindReturn(g, l, FALSE, defaultVal)
     /\ UNCHANGED <<n_buckets, metadata, buckets, locks, hashes, script, nops>>

\* ------------------------------------------------------------ construction
\* the prefix upserts key k with a value of its own, 1000 + k
Upsert(k) == [op |-> "upsert", key |-> k, val |-> 1000 + k]
Remove(k) == [op |-> "remove", key |-> k, val |-> defaultVal]
Find(k) == [op |-> "find", key |-> k, val |-> defaultVal]
\* n upserts of distinct keys whose two candidate buckets are both b
Fill(b, n) == [i \in 1..n |-> Upsert(FillKey(b, i - 1))]

\* Sequential prefixes (workloads) bring the freshly constructed table to the
\* fills the operations are then run against.
\* Each construction is <<n_buckets, hash of key 2^16, prefix>>: the number
\* of buckets generate_on_device computes from the requested capacity, the
\* hash the seed gives the second operation key (key 1 hashes to <<0, 1>>),
\* and the workload run on that table.
Configs ==
  { <<2, <<0, 1>>, <<>> >>,
    <<2, <<1, 0>>, Fill(0, 4) \o <<Upsert(1)>> >>,
    <<2, <<1, 0>>, Fill(0, 6) \o <<Upsert(1), Remove(FillKey(0, 2))>> >>,
    <<2, <<0, 1>>, Fill(0, 7) \o Fill(1, 8) \o <<Upsert(1)>> >>,
    <<3, <<1, 0>>, Fill(0, 8) \o Fill(1, 8)>>,
    <<2, <<1, 0>>, Fill(0, 7) \o Fill(1, 8) \o <<Upsert(1), Remove(1), Find(1)>> >>,
    <<3, <<1, 0>>, Fill(0, 5) \o Fill(1, 6)>> }

\* init_bucket_and_locks: empty tags, sentinel pairs, clear lock bits; the
\* seed fixes the hash of every key
Init ==
  /\ \E c \in Configs :
       /\ n_buckets = c[1]
       /\ script = c[3]
       /\ hashes = [k \in OpKeys \cup FillKeys |->
                      IF k = 1 THEN <<0, 1>>
                      ELSE IF k \in OpKeys THEN c[2]
                      ELSE FillHash(k)]
  /\ metadata = [b \in Buckets |-> [i \in Slots |-> get_empty_tag]]
  /\ buckets = [b \in Buckets |-> [i \in Slots |->
                   [key |-> defaultKey, val |-> defaultVal]]]
  /\ locks = [w \in 0..((n_buckets - 1) \div LockWordBits) |-> {}]
  /\ grp = [g \in Groups |-> Idle]
  /\ nops = 0
  /\ hist = <<>>

Next ==
  \/ InvokeScripted
  \/ \E g \in Groups :
       \/ Invoke(g)
       \/ stall_lock(g)
       \/ unlock(g)
       \/ UpsertLoad0(g)
       \/ UpsertLoad1(g)
       \/ UpsertExistingLoad(g)
       \/ UpsertExistingStore(g)
       \/ match_tombstone(g)
       \/ match_empty(g)
       \/ WritePair(g)
       \/ RemoveLoad(g)
       \/ EraseReferenceLoad(g)
       \/ EraseReferenceCAS(g)
       \/ set_tombstone(g)
       \/ QueryTags(g)
       \/ QueryPair(g)

Spec == Init /\ [][Next]_vars

\* the steps of group g
GroupStep(g) ==
  \/ stall_lock(g) \/ unlock(g) \/ UpsertLoad0(g) \/ UpsertLoad1(g)
  \/ UpsertExistingLoad(g) \/ UpsertExistingStore(g)
  \/ match_tombstone(g) \/ match_empty(g) \/ WritePair(g)
  \/ RemoveLoad(g) \/ EraseReferenceLoad(g) \/ EraseReferenceCAS(g)
  \/ set_tombstone(g) \/ QueryTags(g) \/ QueryPair(g)
\* fair scheduling of the worker groups: a group that can take a step of its
\* operation eventually takes one
FairSpec == Spec /\ \A g \in Groups : WF_vars(GroupStep(g))

\* ------------------------------------------- the no-lock copies, run alone
\* upsert_no_lock and remove_no_lock return where the locked operations
\* unlock
ReturnNoLock(g) ==
  LET l == grp[g]
  IN /\ l.pc = "unlock"
     /\ l.op \in NoLockOps
     /\ Return(g, l, l.ret, defaultVal)
     /\ UNCHANGED <<n_buckets, metadata, buckets, locks, hashes, script, nops>>

\* the tags and slots of the table, recorded in the history
Snap ==
  [kind |-> "snap", g |-> 0, op |-> "none", key |-> 0, val |-> 0,
   ret |-> FALSE, rval |-> defaultVal, how |-> "none", b |-> 0, i |-> 0,
   metadata |-> metadata, buckets |-> buckets]
NoLockOf(op) ==
  CASE op = "upsert" -> "upsert_no_lock"
    [] op = "remove" -> "remove_no_lock"
    [] OTHER -> "find_no_lock"

\* after the prefix, one locked operation is run alone on the table
InvokeLocked ==
  /\ script = <<>> /\ nops = 0
  /\ \A g \in Groups : grp[g].op = "idle"
  /\ \E op \in {"upsert", "remove", "find"} : \E key \in OpKeys :
       LET val == IF op = "upsert" THEN 1 ELSE defaultVal
       IN /\ grp' = [grp EXCEPT ![1] = [Idle EXCEPT !.op = op, !.key = key,
                                          !.val = val, !.pc = FirstPc(op)]]
          /\ hist' = hist \o <<Snap, Ev("inv", 1, op, key, val, FALSE, defaultVal)>>
  /\ nops' = 1
  /\ UNCHANGED <<n_buckets, metadata, buckets, locks, hashes, script>>

\* then its no-lock copy is run alone with the same arguments on the table as
\* it was before the locked operation, with the lock bit of the key's primary
\* bucket held by the caller (lock_key) or not
InvokeNoLock ==
  /\ script = <<>> /\ nops = 1
  /\ \A g \in Groups : grp[g].op = "idle"
  /\ LET s == Min({m \in DOMAIN hist : hist[m].kind = "snap"})
         c == hist[s + 1]
         b == get_first_bucket(hashes[c.key])
     IN /\ metadata' = hist[s].metadata
        /\ buckets' = hist[s].buckets
        /\ \E held \in BOOLEAN :
             locks' = IF held
                      THEN [locks EXCEPT ![b \div LockWordBits] =
                                            @ \cup {b % LockWordBits}]
                      ELSE locks
        /\ grp' = [grp EXCEPT ![1] = [Idle EXCEPT !.op = NoLockOf(c.op),
                                        !.key = c.key, !.val = c.val,
                                        !.pc = FirstPc(NoLockOf(c.op))]]
        /\ hist' = hist \o <<Snap, Ev("inv", 1, NoLockOf(c.op), c.key, c.val,
                                       FALSE, defaultVal)>>
  /\ nops' = 2
  /\ UNCHANGED <<n_buckets, hashes, script>>

NoLockNext ==
  \/ InvokeScripted
  \/ InvokeLocked
  \/ InvokeNoLock
  \/ \E g \in Groups : GroupStep(g) \/ ReturnNoLock(g)

NoLockSpec == Init /\ [][NoLockNext]_vars

\* ------------------------------------ increments under caller-held key locks
\* a group increments the counter of a key: lock_key(key),
\* find_with_reference_no_lock(key), upsert_no_lock(key, old + 1),
\* unlock_key(key)
InvokeIncrement(g) ==
  /\ script = <<>>
  /\ nops < MaxOps
  /\ LowestIdle(g)
  /\ nops = 0 => \A h \in Groups : grp[h].op = "idle"
  /\ \E key \in OpKeys : Start(g, "increment", key, defaultVal)
  /\ nops' = nops + 1
  /\ UNCHANGED <<n_buckets, metadata, buckets, locks, hashes, script>>

IncNext ==
  \/ InvokeScripted
  \/ \E g \in Groups : InvokeIncrement(g) \/ GroupStep(g)

IncSpec == Init /\ [][IncNext]_vars

\* ------------------------------------------------------------ construction
\* x - 1 in unsigned arithmetic
Sub1(x) == (x + 2^SizeBits - 1) % 2^SizeBits
\* uint64_t ext_n_buckets = (cache_capacity-1)/bucket_size+1
ext_n_buckets(cache_capacity) == (Sub1(cache_capacity) \div bucket_size) + 1
\* the words of the lock array: (ext_n_buckets-1)/64+1
lock_words(n) == (Sub1(n) \div LockWordBits) + 1

\* get_device_version: device memory as allocated, not yet written; junk says
\* whether it comes back zeroed or holding what was there before (here: every
\* tag the tag of key 1, every slot a pair of key 1, every lock bit set)
Allocated(n, junk) ==
  [md |-> [b \in 0..(n - 1) |-> [i \in Slots |->
             IF junk THEN get_tag(1) ELSE get_empty_tag]],
   bk |-> [b \in 0..(n - 1) |-> [i \in Slots |->
             IF junk THEN [key |-> 1, val |-> 1] ELSE
                          [key |-> defaultKey, val |-> defaultVal]]],
   lk |-> [w \in 0..(lock_words(n) - 1) |->
             IF junk THEN 0..(LockWordBits - 1) ELSE {}]]

\* generate_on_device has been called with capacity c
Called(c) ==
  /\ hist = <<Ev("inv", 0, "generate_on_device", 0, c, FALSE, defaultVal)>>
  /\ n_buckets = 0 /\ metadata = <<>> /\ buckets = <<>> /\ locks = <<>>
  /\ hashes = [k \in OpKeys |-> IF k = 1 THEN <<0, 1>> ELSE <<1, 0>>]
  /\ grp = [g \in Groups |-> Idle]
  /\ script = <<>>
  /\ nops = 0

\* generate_on_device up to the kernel launch: the sizes, the three arrays and
\* one thread per bucket (the last entry of script stands for the threads of
\* the grid whose tid is not below n_buckets)
generate_on_device ==
  /\ n_buckets = 0 /\ Len(hist) = 1
  /\ LET n == ext_n_buckets(hist[1].val)
     IN \E junk \in BOOLEAN :
          /\ n_buckets' = n
          /\ metadata' = Allocated(n, junk).md
          /\ buckets' = Allocated(n, junk).bk
          /\ locks' = Allocated(n, junk).lk
          /\ script' = [t \in 1..(n + 1) |-> "start"]
          /\ hist' = Append(hist, Ev("alloc", 0, "generate_on_device", 0,
                                     hist[1].val, junk, defaultVal))
  /\ UNCHANGED <<hashes, grp, nops>>

\* every capacity of the model's width
SizeInit == \E c \in 0..(2^SizeBits - 1) : Called(c)
SizeSpec == SizeInit /\ [][generate_on_device]_vars

\* init_p2_md_table_kernel: thread tid is entry tid + 1 of script
Tids == 0..(Len(script) - 1)
ThreadAt(tid, pc) == tid \in Tids /\ script[tid + 1] = pc
ThreadTo(tid, pc) == script' = [script EXCEPT ![tid + 1] = pc]

\* mutant: the thread of the last bucket takes the branch of the idle threads
init_bucket_and_locks_OffByOne(tid) ==
  /\ ThreadAt(tid, "start")
  /\ IF tid < n_buckets - 1
     THEN /\ metadata' = [metadata EXCEPT ![tid] = [i \in Slots |-> get_empty_tag]]
          /\ ThreadTo(tid, "buckets")
     ELSE /\ metadata' = metadata
          /\ ThreadTo(tid, "done")
  /\ UNCHANGED <<n_buckets, buckets, locks, hashes, grp, nops, hist>>
\* init_bucket_and_locks(tid): if (tid < n_buckets) metadata[tid].init()
init_bucket_and_locks(tid) ==
  /\ ThreadAt(tid, "start")
  /\ IF tid < n_buckets
     THEN /\ metadata' = [metadata EXCEPT ![tid] = [i \in Slots |-> get_empty_tag]]
          /\ ThreadTo(tid, "buckets")
     ELSE /\ metadata' = metadata
          /\ ThreadTo(tid, "done")
  /\ UNCHANGED <<n_buckets, buckets, locks, hashes, grp, nops, hist>>

\* buckets[tid].init(): every slot the sentinel pair
bucket_init(tid) ==
  /\ ThreadAt(tid, "buckets")
  /\ buckets' = [buckets EXCEPT ![tid] =
                   [i \in Slots |-> [key |-> defaultKey, val |-> defaultVal]]]
  /\ ThreadTo(tid, "unlock")
  /\ UNCHANGED <<n_buckets, metadata, locks, hashes, grp, nops, hist>>

\* unlock_bucket_one_thread(tid): atomicAnd clears the bit of bucket tid
unlock_bucket_one_thread(tid) ==
  /\ ThreadAt(tid, "unlock")
  /\ locks' = [locks EXCEPT ![tid \div LockWordBits] = @ \ {tid % LockWordBits}]
  /\ ThreadTo(tid, "done")
  /\ UNCHANGED <<n_buckets, metadata, buckets, hashes, grp, nops, hist>>

\* cudaDeviceSynchronize, then generate_on_device returns the table
cudaDeviceSynchronize ==
  /\ script # <<>>
  /\ \A tid \in Tids : script[tid + 1] = "done"
  /\ script' = <<>>
  /\ hist' = Append(hist, Ev("ret", 0, "generate_on_device", 0, hist[1].val,
                             TRUE, defaultVal))
  /\ UNCHANGED <<n_buckets, metadata, buckets, locks, hashes, grp, nops>>

\* generate_on_device has returned
Constructed == n_buckets > 0 /\ script = <<>>

\* queries and removes on the table as constructed
InvokeFresh(g) ==
  /\ Constructed
  /\ nops < MaxOps
  /\ LowestIdle(g)
  /\ \E op \in {"find", "remove"} : \E key \in OpKeys :
       Start(g, op, key, defaultVal)
  /\ nops' = nops + 1
  /\ UNCHANGED <<n_buckets, metadata, buckets, locks, hashes, script>>

\* capacities that give 1, 2 and 3 buckets
FreshCapacities == {1, bucket_size + 1, 3 * bucket_size}
BuildInit == \E c \in FreshCapacities : Called(c)
\* the threads of the largest of these tables
FreshTids ==
  LET ns == {ext_n_buckets(c) : c \in FreshCapacities}
  IN 0..(CHOOSE n \in ns : \A m \in ns : m <= n)
BuildNext ==
  \/ generate_on_device
  \/ cudaDeviceSynchronize
  \/ \E tid \in FreshTids :
       \/ init_bucket_and_locks(tid)
       \/ bucket_init(tid)
       \/ unlock_bucket_one_thread(tid)
  \/ \E g \in Groups :
       \/ InvokeFresh(g)
       \/ stall_lock(g)
       \/ unlock(g)
       \/ RemoveLoad(g)
       \/ QueryTags(g)
BuildSpec == BuildInit /\ [][BuildNext]_vars

\* ------------------------------------------------- get_tag, statement by
\* statement: the events after the call hold the local key and key_tag
\* get_tag(key) has been called: key_tag = (uint16_t) key
TagCalled(k) ==
  /\ hist = <<Ev("inv", 0, "get_tag", k, k % 2^TagBits, FALSE, defaultVal)>>
  /\ n_buckets = 0 /\ metadata = <<>> /\ buckets = <<>> /\ locks = <<>>
  /\ hashes = [x \in OpKeys |-> IF x = 1 THEN <<0, 1>> ELSE <<1, 0>>]
  /\ grp = [g \in Groups |-> Idle]
  /\ script = <<>>
  /\ nops = 0
\* mutant: the loop steps off the empty tag only
get_tag_cond_EmptyOnly(key_tag) == key_tag = get_empty_tag
\* the condition of the while loop
get_tag_cond(key_tag) == key_tag = get_empty_tag \/ key_tag = get_tombstone_tag
TagRunning == hist # <<>> /\ hist[Len(hist)].kind # "ret"
\* one iteration: key += 1 (in the key type); key_tag = (uint16_t) key
get_tag_loop ==
  /\ TagRunning
  /\ Len(hist) <= MaxTagSteps
  /\ get_tag_cond(hist[Len(hist)].val)
  /\ LET key == (hist[Len(hist)].key + 1) % 2^KeyBits
     IN hist' = Append(hist, Ev("step", 0, "get_tag", key, key % 2^TagBits,
                                FALSE, defaultVal))
  /\ UNCHANGED <<n_buckets, metadata, buckets, locks, hashes, grp, script, nops>>
\* return key_tag
get_tag_return ==
  /\ TagRunning
  /\ ~get_tag_cond(hist[Len(hist)].val)
  /\ hist' = Append(hist, Ev("ret", 0, "get_tag", hist[1].key, defaultVal,
                             TRUE, hist[Len(hist)].val))
  /\ UNCHANGED <<n_buckets, metadata, buckets, locks, hashes, grp, script, nops>>
\* every key of the key type
TagInit == \E k \in 0..(2^KeyBits - 1) : TagCalled(k)
TagNext == get_tag_loop \/ get_tag_return
TagSpec == TagInit /\ [][TagNext]_vars

\* ------------------------------------ operations one at a time (no other
\* group runs while an operation is in progress)
\* <<n_buckets, hash of key 65536, scripted prefix, spread>>: with spread the
\* secondary bucket of the fill keys of bucket b is bucket b + 1
SeqConfigs ==
  { <<2, <<0, 1>>, <<>>, FALSE>>,
    <<2, <<0, 1>>, Fill(0, 5) \o <<Upsert(1), Remove(1)>>, FALSE>>,
    <<2, <<0, 1>>, Fill(0, 3) \o <<Upsert(1), Remove(FillKey(0, 1))>>, FALSE>>,
    <<2, <<0, 1>>, Fill(0, 4) \o <<Upsert(1)>>, FALSE>>,
    <<2, <<0, 1>>, Fill(0, 8) \o <<Find(FillKey(0, 0)), Find(FillKey(0, 7))>>,
         TRUE>>,
    <<2, <<1, 0>>, Fill(0, 7) \o Fill(1, 7), FALSE>> }
\* the table as constructed, with the hashes and the prefix of config c
InitOf(c, spread) ==
  /\ n_buckets = c[1]
  /\ script = c[3]
  /\ hashes = [k \in OpKeys \cup FillKeys |->
                 IF k = 1 THEN <<0, 1>>
                 ELSE IF k \in OpKeys THEN c[2]
                 ELSE IF spread THEN <<FillHash(k)[1], FillHash(k)[1] + 1>>
                 ELSE FillHash(k)]
  /\ metadata = [b \in Buckets |-> [i \in Slots |-> get_empty_tag]]
  /\ buckets = [b \in Buckets |-> [i \in Slots |->
                   [key |-> defaultKey, val |-> defaultVal]]]
  /\ locks = [w \in 0..((n_buckets - 1) \div LockWordBits) |-> {}]
  /\ grp = [g \in Groups |-> Idle]
  /\ nops = 0
  /\ hist = <<>>
SeqInit == \E c \in SeqConfigs : InitOf(c, c[4])
\* a caller issues the next operation once the previous one has returned
InvokeAlone(g) ==
  /\ script = <<>>
  /\ nops < MaxSeqOps
  /\ LowestIdle(g)
  /\ \A h \in Groups : grp[h].op = "idle"
  /\ \E op \in {"upsert", "remove", "find"} : \E key \in OpKeys :
       Start(g, op, key, IF op = "upsert" THEN nops + 1 ELSE defaultVal)
  /\ nops' = nops + 1
  /\ UNCHANGED <<n_buckets, metadata, buckets, locks, hashes, script>>
SeqNext ==
  \/ InvokeScripted
  \/ \E g \in Groups : InvokeAlone(g) \/ GroupStep(g)
SeqSpec == SeqInit /\ [][SeqNext]_vars

\* ------------------------------------ concurrent operations on tables whose
\* two buckets are both past the cutoff: equal counts; two free slots in one;
\* a tombstoned and an empty slot in one; a single free slot in all
DuoConfigs ==
  { <<2, <<1, 0>>, Fill(0, 7) \o Fill(1, 7)>>,
    <<2, <<1, 0>>, Fill(0, 6) \o Fill(1, 7)>>,
    <<2, <<1, 0>>, Fill(0, 7) \o <<Remove(FillKey(0, 2))>> \o Fill(1, 7)>>,
    <<2, <<1, 0>>, Fill(0, 7) \o Fill(1, 8)>> }
DuoInit == \E c \in DuoConfigs : InitOf(c, FALSE)
DuoSpec == DuoInit /\ [][Next]_vars

\* ------------------------------------ a table of one bucket: every key's
\* primary and secondary bucket are bucket 0. Prefixes leave it empty, with
\* one free slot, full, full with key 1 in it, with a tombstone, and with
\* key 1 upserted and removed.
OneConfigs ==
  { <<1, <<0, 0>>, <<>> >>,
    <<1, <<0, 0>>, Fill(0, 7)>>,
    <<1, <<0, 0>>, Fill(0, 8)>>,
    <<1, <<0, 0>>, Fill(0, 7) \o <<Upsert(1)>> >>,
    <<1, <<0, 0>>, Fill(0, 8) \o <<Remove(FillKey(0, 2))>> >>,
    <<1, <<0, 0>>, Fill(0, 6) \o <<Upsert(1), Remove(1)>> >> }
OneInit == \E c \in OneConfigs : InitOf(c, FALSE)
OneSpec == OneInit /\ [][Next]_vars
OneFairSpec == OneSpec /\ \A g \in Groups : WF_vars(GroupStep(g))

\* ------------------------------------ callers that hold a key's lock: a
\* group calls lock_key(k), then operations with or without their own lock,
\* then unlock_key(k). Key 2^16 has the primary bucket of key 1 in the first
\* table and another one in the second, whose bucket 0 is at the cutoff.
HeldConfigs ==
  { <<2, <<0, 1>>, <<Upsert(1)>> >>,
    <<2, <<1, 0>>, Fill(0, 6)>> }
HeldInit == \E c \in HeldConfigs : InitOf(c, FALSE)
\* while the table is at rest and no key has been locked yet, a group calls
\* lock_key(key)
CallLockKey(g) ==
  /\ script = <<>>
  /\ LowestIdle(g) /\ \A h \in Groups : grp[h].op = "idle"
  /\ \A x \in DOMAIN hist : hist[x].op # "lock_key"
  /\ \E key \in OpKeys :
       /\ grp' = [grp EXCEPT ![g] = [Idle EXCEPT !.op = "lock_key", !.key = key,
                                                  !.pc = "lk_lock"]]
       /\ hist' = Append(hist, Ev("inv", g, "lock_key", key, defaultVal, FALSE, defaultVal))
  /\ UNCHANGED <<n_buckets, metadata, buckets, locks, hashes, script, nops>>
\* lock_key: stall_lock on get_first_bucket(hash(key)), then the return; the
\* returned value of the event is the bucket whose bit was addressed
lock_key(g) ==
  LET l == grp[g]
      b == get_first_bucket(hashes[l.key])
  IN /\ l.pc = "lk_lock"
     /\ ~LockHeld(b)
     /\ locks' = [locks EXCEPT ![b \div LockWordBits] = @ \cup {b % LockWordBits}]
     /\ Return(g, l, TRUE, b)
     /\ UNCHANGED <<n_buckets, metadata, buckets, hashes, script, nops>>
\* the group calls unlock_key on the key it has locked
CallUnlockKey(g) ==
  /\ grp[g].op = "idle"
  /\ \E key \in KeysLockedBy(g) :
       /\ grp' = [grp EXCEPT ![g] = [Idle EXCEPT !.op = "unlock_key", !.key = key,
                                                  !.pc = "lk_unlock"]]
       /\ hist' = Append(hist, Ev("inv", g, "unlock_key", key, defaultVal, FALSE, defaultVal))
  /\ UNCHANGED <<n_buckets, metadata, buckets, locks, hashes, script, nops>>
\* unlock_key: unlock on get_first_bucket(hash(key)), then the return
unlock_key(g) ==
  LET l == grp[g]
      b == get_first_bucket(hashes[l.key])
  IN /\ l.pc = "lk_unlock"
     /\ locks' = [locks EXCEPT ![b \div LockWordBits] = @ \ {b % LockWordBits}]
     /\ Return(g, l, TRUE, b)
     /\ UNCHANGED <<n_buckets, metadata, buckets, hashes, script, nops>>
\* a group calls an operation of the table, holding a key lock or not; the
\* no-lock variants are called under a key lock only
InvokeHeld(g) ==
  /\ script = <<>>
  /\ nops < MaxOps
  /\ LowestIdle(g)
  /\ \E op \in {"upsert", "remove", "upsert_no_lock", "remove_no_lock", "find_no_lock"} :
     \E key \in OpKeys :
       /\ op \in NoLockOps => KeysLockedBy(g) # {}
       /\ Start(g, op, key, IF op \in {"upsert", "upsert_no_lock"} THEN nops + 1 ELSE defaultVal)
  /\ nops' = nops + 1
  /\ UNCHANGED <<n_buckets, metadata, buckets, locks, hashes, script>>
HeldStep(g) ==
  GroupStep(g) \/ ReturnNoLock(g) \/ lock_key(g) \/ unlock_key(g)
HeldNext ==
  \/ InvokeScripted
  \/ \E g \in Groups :
       \/ CallLockKey(g) \/ CallUnlockKey(g) \/ InvokeHeld(g)
       \/ GroupStep(g) \/ ReturnNoLock(g) \/ lock_key(g) \/ unlock_key(g)
\* every group that can take a step of its operation eventually takes one
HeldSpec == HeldInit /\ [][HeldNext]_vars /\ \A g \in Groups : WF_vars(HeldStep(g))

\* ------------------------------------ bucket selection: tables of one, two
\* and three buckets with hashes whose halves exceed the number of buckets.
\* A hash is the pair <<hash & BITMASK(32), hash >> 32>>.
BsSizes == {1, 2, 3}
BsHashes == {<<0, 1>>, <<4, 3>>, <<3, 5>>}
\* the prefixes: none, and one that leaves bucket 0 past the cutoff with a
\* tombstone
BsScripts == {<<>>, Fill(0, 6) \o <<Upsert(1), Remove(FillKey(0, 2))>>}
BsInit ==
  /\ n_buckets \in BsSizes
  /\ \E h \in [OpKeys -> BsHashes] :
       hashes = [k \in OpKeys \cup FillKeys |-> IF k \in OpKeys THEN h[k] ELSE FillHash(k)]
  /\ script \in BsScripts
  /\ metadata = [b \in Buckets |-> [i \in Slots |-> get_empty_tag]]
  /\ buckets = [b \in Buckets |-> [i \in Slots |->
                   [key |-> defaultKey, val |-> defaultVal]]]
  /\ locks = [w \in 0..((n_buckets - 1) \div LockWordBits) |-> {}]
  /\ grp = [g \in Groups |-> Idle]
  /\ nops = 0
  /\ hist = <<>>
BsNext == InvokeScripted \/ \E g \in Groups : Invoke(g) \/ GroupStep(g)
BsSpec == BsInit /\ [][BsNext]_vars

\* ------------------------------------ p2_int_table: the lock-based table
\* without tag metadata (outdated_tables/p2_hashing_internal.cuh). A bucket
\* is its slots only; metadata stays as constructed. Calls run one at a
\* time, each from stall_lock to unlock in one step.
IntTile == 4
IntTraversals == ((bucket_size - 1) \div IntTile + 1) * IntTile
IntPasses == 0..(IntTraversals \div IntTile - 1)
\* the slots of the pass (one iteration of the tile loop)
IntPassSlots(p) == {i \in Slots : i \div IntTile = p}
\* i < bucket_size*.75
IntBelowCutoff(n) == 4 * n < 3 * bucket_size
\* typed_atomic_write(&slots[i].key, expected, desired), then the value store
IntCAS(bk, i, expected, key, val) ==
  IF bk[i].key = expected
    THEN [ok |-> TRUE, bucket |-> [bk EXCEPT ![i] = [key |-> key, val |-> val]]]
    ELSE [ok |-> FALSE, bucket |-> bk]
\* p2_bucket_lock::load_fill_ballots: the three masks of a bucket
int_load_fill_ballots(bk, key) ==
  [e |-> {i \in Slots : bk[i].key = defaultKey},
   t |-> {i \in Slots : bk[i].key = tombstoneKey},
   m |-> {i \in Slots : bk[i].key = key}]
\* p2_bucket_lock::load_fill_ballots_upserts from pass p on: the pass's matching
\* slot is overwritten, else its lowest empty slot below the cutoff is taken,
\* else the masks grow and the next pass runs
RECURSIVE int_load_fill_ballots_upserts(_, _, _, _, _)
int_load_fill_ballots_upserts(bk, key, val, p, acc) ==
  IF p \notin IntPasses THEN [done |-> FALSE, bucket |-> bk, masks |-> acc]
  ELSE LET S == IntPassSlots(p)
           fe == {i \in S : bk[i].key = defaultKey}
           ft == {i \in S : bk[i].key = tombstoneKey}
           fx == {i \in S : bk[i].key = key}
           now == [e |-> acc.e \cup fe, t |-> acc.t \cup ft, m |-> acc.m \cup fx]
           w1 == IF fx = {} THEN [ok |-> FALSE, bucket |-> bk]
                 ELSE IntCAS(bk, Min(fx), key, key, val)
           w2 == IF fe = {} \/ ~IntBelowCutoff(Min(fe)) THEN [ok |-> FALSE, bucket |-> bk]
                 ELSE IntCAS(bk, Min(fe), defaultKey, key, val)
       IN IF w1.ok THEN [done |-> TRUE, bucket |-> w1.bucket, masks |-> now]
          ELSE IF w2.ok THEN [done |-> TRUE, bucket |-> w2.bucket, masks |-> now]
          ELSE int_load_fill_ballots_upserts(bk, key, val, p + 1, now)
\* p2_bucket_lock::insert_ballots: one attempt, on the lowest slot of the
\* first pass that has an empty or tombstone bit
int_insert_ballots(bk, key, val, empty_match, tombstone_match) ==
  LET ps == {p \in IntPasses : (empty_match \cup tombstone_match) \cap IntPassSlots(p) # {}}
  IN IF ps = {} THEN [ok |-> FALSE, bucket |-> bk]
     ELSE LET leader == Min((empty_match \cup tombstone_match) \cap IntPassSlots(Min(ps)))
          IN IF leader \in empty_match THEN IntCAS(bk, leader, defaultKey, key, val)
             ELSE IntCAS(bk, leader, tombstoneKey, key, val)
\* p2_bucket_lock::upsert_existing: the lowest mapped slot that still holds
\* the key gets the value
int_upsert_existing(bk, key, val, upsert_mapping) ==
  LET s == {i \in upsert_mapping : bk[i].key = key}
  IN IF s = {} THEN [ok |-> FALSE, bucket |-> bk]
     ELSE IntCAS(bk, Min(s), key, key, val)
IntSize(mk) == bucket_size - Cardinality(mk.e \cup mk.t)
\* the generic loop of upsert_replace_internal
RECURSIVE int_generic_loop(_, _, _, _, _, _, _)
int_generic_loop(tbl, key, val, b0, b1, k0, k1) ==
  IF ~(IntSize(k0) # bucket_size \/ IntSize(k1) # bucket_size)
    THEN [ret |-> FALSE, buckets |-> tbl]
  ELSE
    LET u0 == IF k0.m = {} THEN [ok |-> FALSE, bucket |-> tbl[b0]]
              ELSE int_upsert_existing(tbl[b0], key, val, k0.m)
        u1 == IF k1.m = {} THEN [ok |-> FALSE, bucket |-> tbl[b1]]
              ELSE int_upsert_existing(tbl[b1], key, val, k1.m)
        first == IntSize(k0) <= IntSize(k1)
        ins == IF first THEN int_insert_ballots(tbl[b0], key, val, k0.e, k0.t)
               ELSE int_insert_ballots(tbl[b1], key, val, k1.e, k1.t)
    IN IF u0.ok THEN [ret |-> TRUE, buckets |-> [tbl EXCEPT ![b0] = u0.bucket]]
       ELSE IF u1.ok THEN [ret |-> TRUE, buckets |-> [tbl EXCEPT ![b1] = u1.bucket]]
       ELSE IF ins.ok
         THEN [ret |-> TRUE, buckets |-> [tbl EXCEPT ![IF first THEN b0 ELSE b1] = ins.bucket]]
       ELSE int_generic_loop(tbl, key, val, b0, b1,
                             int_load_fill_ballots(tbl[b0], key),
                             int_load_fill_ballots(tbl[b1], key))
\* the shortcut loop of upsert_replace_internal: while the primary bucket's
\* keys are fewer than three quarters of its slots, the key goes there
RECURSIVE int_shortcut_loop(_, _, _, _, _, _)
int_shortcut_loop(tbl, key, val, b0, b1, k0) ==
  IF ~IntBelowCutoff(IntSize(k0))
    THEN int_generic_loop(tbl, key, val, b0, b1, k0, int_load_fill_ballots(tbl[b1], key))
  ELSE
    LET u0 == IF k0.m = {} THEN [ok |-> FALSE, bucket |-> tbl[b0]]
              ELSE int_upsert_existing(tbl[b0], key, val, k0.m)
        ins == int_insert_ballots(tbl[b0], key, val, k0.e, k0.t)
    IN IF u0.ok THEN [ret |-> TRUE, buckets |-> [tbl EXCEPT ![b0] = u0.bucket]]
       ELSE IF ins.ok THEN [ret |-> TRUE, buckets |-> [tbl EXCEPT ![b0] = ins.bucket]]
       ELSE int_shortcut_loop(tbl, key, val, b0, b1, int_load_fill_ballots(tbl[b0], key))
\* p2_int_table::upsert_replace_internal
int_upsert_replace_internal(tbl, key, val, b0, b1) ==
  LET l0 == int_load_fill_ballots_upserts(tbl[b0], key, val, 0, [e |-> {}, t |-> {}, m |-> {}])
  IN IF l0.done THEN [ret |-> TRUE, buckets |-> [tbl EXCEPT ![b0] = l0.bucket]]
     ELSE int_shortcut_loop(tbl, key, val, b0, b1, l0.masks)
\* p2_bucket_lock::query: the lowest slot of the first pass that holds the key
int_query(bk, key) ==
  LET s == {i \in Slots : bk[i].key = key}
  IN IF s = {} THEN [ok |-> FALSE, val |-> defaultVal]
     ELSE [ok |-> TRUE, val |-> bk[Min(s)].val]
\* p2_bucket_lock::erase: the lowest slot that holds the key becomes a tombstone
int_erase(bk, key) ==
  LET s == {i \in Slots : bk[i].key = key}
  IN IF s = {} THEN [ok |-> FALSE, bucket |-> bk]
     ELSE [ok |-> TRUE, bucket |-> [bk EXCEPT ![Min(s)].key = tombstoneKey]]

\* <<n_buckets, hash of key 65536, scripted prefix>>
IntConfigs ==
  { <<2, <<0, 1>>, <<>> >>,
    <<2, <<0, 1>>, Fill(0, 6) \o <<Upsert(1), Remove(FillKey(0, 0))>> >>,
    <<2, <<1, 0>>, Fill(0, 8) \o Fill(1, 7)>>,
    <<2, <<0, 1>>, Fill(0, 5) \o <<Upsert(1), Remove(FillKey(0, 1))>> >> }
IntInit == \E c \in IntConfigs : InitOf(c, FALSE)
\* the calls that may come next: the head of the prefix, then free calls
IntCalls(op) ==
  IF script # <<>> THEN {c \in {Head(script)} : c.op = op}
  ELSE IF nops < MaxSeqOps
    THEN {[op |-> op, key |-> k, val |-> IF op = "upsert" THEN nops + 1 ELSE defaultVal] :
            k \in OpKeys}
  ELSE {}
IntDone(c, ret, rval) ==
  /\ hist' = Append(hist, Ev("ret", 1, c.op, c.key, c.val, ret, rval))
  /\ script' = IF script # <<>> THEN Tail(script) ELSE script
  /\ nops' = IF script # <<>> THEN nops ELSE nops + 1
  /\ UNCHANGED <<n_buckets, metadata, locks, hashes, grp>>
\* p2_int_table::upsert_replace
int_upsert_replace ==
  \E c \in IntCalls("upsert") :
    LET r == int_upsert_replace_internal(buckets, c.key, c.val,
                 get_first_bucket(hashes[c.key]), get_second_bucket(hashes[c.key]))
    IN /\ buckets' = r.buckets
       /\ IntDone(c, r.ret, defaultVal)
\* p2_int_table::remove
int_remove ==
  \E c \in IntCalls("remove") :
    LET b0 == get_first_bucket(hashes[c.key])
        b1 == get_second_bucket(hashes[c.key])
        r0 == int_erase(buckets[b0], c.key)
        r1 == int_erase(buckets[b1], c.key)
    IN /\ buckets' = IF r0.ok THEN [buckets EXCEPT ![b0] = r0.bucket]
                     ELSE IF r1.ok THEN [buckets EXCEPT ![b1] = r1.bucket]
                     ELSE buckets
       /\ IntDone(c, r0.ok \/ r1.ok, defaultVal)
\* p2_int_table::find_with_reference
int_find_with_reference ==
  \E c \in IntCalls("find") :
    LET q0 == int_query(buckets[get_first_bucket(hashes[c.key])], c.key)
        q1 == int_query(buckets[get_second_bucket(hashes[c.key])], c.key)
    IN /\ buckets' = buckets
       /\ IntDone(c, q0.ok \/ q1.ok, IF q0.ok THEN q0.val ELSE q1.val)
IntNext == int_upsert_replace \/ int_remove \/ int_find_with_reference
IntSpec == IntInit /\ [][IntNext]_vars

\* ------------------------------------ p2_md_bucket::insert_ballots on one
\* bucket: groups call it with the masks of the bucket as they read it, next
\* to query and erase calls on the same bucket
HbFull == [i \in Slots |-> [key |-> FillKey(0, i), val |-> 1000 + FillKey(0, i)]]
HbFree == [i \in Slots |-> [key |-> defaultKey, val |-> defaultVal]]
\* the bucket at the start: empty; a tombstone below the empty slots; key 1,
\* a tombstone and one empty slot; full
HbLayouts ==
  { HbFree,
    [i \in Slots |-> IF i = 0 THEN HbFull[0]
                     ELSE IF i = 1 THEN [key |-> tombstoneKey, val |-> defaultVal]
                     ELSE HbFree[i]],
    [i \in Slots |-> IF i = 0 THEN [key |-> 1, val |-> 1001]
                     ELSE IF i = 1 THEN [key |-> tombstoneKey, val |-> defaultVal]
                     ELSE IF i = bucket_size - 1 THEN HbFree[i]
                     ELSE HbFull[i]],
    HbFull }
HbInit ==
  /\ n_buckets = 1
  /\ buckets \in [{0} -> HbLayouts]
  /\ metadata = [b \in {0} |-> [i \in Slots |-> get_empty_tag]]
  /\ locks = [w \in {0} |-> {}]
  /\ hashes = [k \in OpKeys |-> <<0, 0>>]
  /\ grp = [g \in Groups |-> Idle]
  /\ script = <<>>
  /\ nops = 0
  /\ hist = <<>>
\* the call event, with the two masks handed to the call
HbCallEv(g, key, val, empty_match, tombstone_match) ==
  [kind |-> "inv", g |-> g, op |-> "insert_ballots", key |-> key, val |-> val,
   ret |-> FALSE, rval |-> defaultVal, how |-> "none", b |-> 0, i |-> 0,
   e |-> empty_match, t |-> tombstone_match]
\* a group reads the masks of the bucket and calls insert_ballots with them
HbCall(g) ==
  /\ nops < MaxOps
  /\ grp[g].op = "idle"
  /\ \E key \in OpKeys :
       LET empty_match == {i \in Slots : buckets[0][i].key = defaultKey}
           tombstone_match == {i \in Slots : buckets[0][i].key = tombstoneKey}
       IN /\ grp' = [grp EXCEPT ![g] = [Idle EXCEPT !.op = "insert_ballots", !.pc = "ib_cas",
                                                     !.key = key, !.val = nops + 1,
                                                     !.e0 = empty_match, !.t0 = tombstone_match]]
          /\ hist' = Append(hist, HbCallEv(g, key, nops + 1, empty_match, tombstone_match))
  /\ nops' = nops + 1
  /\ UNCHANGED <<n_buckets, metadata, buckets, locks, hashes, script>>
\* the claim attempt of group g on slot i, and whether its CAS succeeded
HbAttempt(g, l, i, ok) == [Effect(g, l, "claim") EXCEPT !.i = i, !.ret = ok]
\* the slot the leader lane of the first pass with a candidate stands for
HbLeader(empty_match, tombstone_match) ==
  LET any == empty_match \cup tombstone_match
      p == Min({q \in IntPasses : any \cap IntPassSlots(q) # {}})
  IN Min(any \cap IntPassSlots(p))
\* mutant: after a failed CAS the leader's bit is cleared and the next
\* candidate is tried
insert_ballots_claim_Retry(g) ==
  LET l == grp[g]
      leader == HbLeader(l.e0, l.t0)
      expected == IF leader \in l.e0 THEN defaultKey ELSE tombstoneKey
  IN /\ l.pc = "ib_cas"
     /\ IF l.e0 \cup l.t0 = {}
        THEN /\ Return(g, l, FALSE, defaultVal)
             /\ buckets' = buckets
        ELSE IF buckets[0][leader].key = expected
        THEN /\ buckets' = [buckets EXCEPT ![0][leader].key = holdingKey]
             /\ grp' = [grp EXCEPT ![g] = [l EXCEPT !.pc = "ib_store", !.cur = leader]]
             /\ hist' = Append(hist, HbAttempt(g, l, leader, TRUE))
        ELSE /\ buckets' = buckets
             /\ grp' = [grp EXCEPT ![g] = [l EXCEPT !.e0 = @ \ {leader}, !.t0 = @ \ {leader}]]
             /\ hist' = Append(hist, HbAttempt(g, l, leader, FALSE))
     /\ UNCHANGED <<n_buckets, metadata, locks, hashes, script, nops>>
\* insert_ballots up to its CAS: typed_atomic_write(&slots[i].key, defaultKey
\* or tombstoneKey, holdingKey) by the leader; a failed CAS ends the call
insert_ballots_claim(g) ==
  LET l == grp[g]
      leader == HbLeader(l.e0, l.t0)
      expected == IF leader \in l.e0 THEN defaultKey ELSE tombstoneKey
  IN /\ l.pc = "ib_cas"
     /\ IF l.e0 \cup l.t0 = {}
        THEN /\ Return(g, l, FALSE, defaultVal)
             /\ buckets' = buckets
        ELSE IF buckets[0][leader].key = expected
        THEN /\ buckets' = [buckets EXCEPT ![0][leader].key = holdingKey]
             /\ grp' = [grp EXCEPT ![g] = [l EXCEPT !.pc = "ib_store", !.cur = leader]]
             /\ hist' = Append(hist, HbAttempt(g, l, leader, TRUE))
        ELSE /\ buckets' = buckets
             /\ grp' = [grp EXCEPT ![g] = Idle]
             /\ hist' = hist \o << HbAttempt(g, l, leader, FALSE),
                                   Ev("ret", g, l.op, l.key, l.val, FALSE, defaultVal) >>
     /\ UNCHANGED <<n_buckets, metadata, locks, hashes, script, nops>>
\* insert_ballots after its CAS: ht_store_packed_pair(&slots[i], {ext_key,
\* ext_val}) by the lane whose CAS succeeded, then the return
insert_ballots_store(g) ==
  LET l == grp[g]
  IN /\ l.pc = "ib_store"
     /\ buckets' = [buckets EXCEPT ![0][l.cur] = [key |-> l.key, val |-> l.val]]
     /\ Return(g, l, TRUE, defaultVal)
     /\ UNCHANGED <<n_buckets, metadata, locks, hashes, script, nops>>
\* found_ballot = (loaded_pair.key == ext_key) of query, and of erase
hb_found_ballot(loaded_key, ext_key) == loaded_key = ext_key
\* p2_md_bucket::query by an idle group; the event names the slot found
hb_query(g) ==
  /\ nops < MaxOps
  /\ grp[g].op = "idle"
  /\ \E key \in OpKeys :
       LET s == {i \in Slots : hb_found_ballot(buckets[0][i].key, key)}
           l == [Idle EXCEPT !.op = "query", !.key = key]
       IN hist' = Append(hist,
            IF s = {} THEN Ev("ret", g, "query", key, defaultVal, FALSE, defaultVal)
            ELSE [Ev("ret", g, "query", key, defaultVal, TRUE, buckets[0][Min(s)].val)
                    EXCEPT !.i = Min(s)])
  /\ nops' = nops + 1
  /\ UNCHANGED <<n_buckets, metadata, buckets, locks, hashes, grp, script>>
\* p2_md_bucket::erase by an idle group: the load that finds the key and the
\* CAS of that slot's key to tombstoneKey
hb_erase(g) ==
  /\ nops < MaxOps
  /\ grp[g].op = "idle"
  /\ \E key \in OpKeys :
       LET s == {i \in Slots : hb_found_ballot(buckets[0][i].key, key)}
       IN /\ buckets' = IF s = {} THEN buckets
                        ELSE [buckets EXCEPT ![0][Min(s)].key = tombstoneKey]
          /\ hist' = Append(hist,
               IF s = {} THEN Ev("ret", g, "erase", key, defaultVal, FALSE, defaultVal)
               ELSE [Ev("ret", g, "erase", key, defaultVal, TRUE, defaultVal)
                       EXCEPT !.i = Min(s)])
  /\ nops' = nops + 1
  /\ UNCHANGED <<n_buckets, metadata, locks, hashes, grp, script>>
HbStep(g) == insert_ballots_claim(g) \/ insert_ballots_store(g)
HbNext ==
  \E g \in Groups :
    \/ HbCall(g) \/ hb_query(g) \/ hb_erase(g)
    \/ insert_ballots_claim(g) \/ insert_ballots_store(g)
\* a group inside insert_ballots eventually takes its next step
HbSpec == HbInit /\ [][HbNext]_vars /\ \A g \in Groups : WF_vars(HbStep(g))

\* ------------------------------------ upsert_existing lane by lane: one
\* bucket, one group of partition_size lanes, lane r visiting the slots
\* r, r + partition_size, ... below n_traversals; script holds partition_size
UeWidths == {2, 4, 8, 16}
UeKey == 1
UeOther == 2^TagBits + 1
UeVal == 5
\* the bucket: the key in slot pos (in no slot for pos = bucket_size), another
\* key with the same tag everywhere else
UeBucket(pos) ==
  [i \in Slots |-> IF i = pos THEN [key |-> UeKey, val |-> 7]
                   ELSE [key |-> UeOther, val |-> 9]]
\* the call, with its mask and the bucket as it was
UeCall(upsert_mapping) ==
  [kind |-> "inv", g |-> 1, op |-> "upsert_existing", key |-> UeKey,
   val |-> UeVal, ret |-> FALSE, rval |-> defaultVal, how |-> "none",
   b |-> 0, i |-> 0, buckets |-> buckets, mask |-> upsert_mapping]
\* upsert_existing(my_tile, UeKey, UeVal, upsert_mapping) has been called
UeInit ==
  \E W \in UeWidths : \E pos \in 0..bucket_size : \E upsert_mapping \in SUBSET Slots :
    /\ n_buckets = 1
    /\ buckets = [b \in {0} |-> UeBucket(pos)]
    /\ metadata = [b \in {0} |-> [i \in Slots |-> get_tag(UeKey)]]
    /\ locks = [w \in {0} |-> {0}]
    /\ hashes = [k \in {UeKey} |-> <<0, 0>>]
    /\ grp = [g \in Groups |->
               IF g = 1 THEN [Idle EXCEPT !.op = "upsert_existing", !.pc = "ballot",
                                          !.key = UeKey, !.val = UeVal,
                                          !.m0 = upsert_mapping]
               ELSE Idle]
    /\ script = <<W>>
    /\ nops = 0
    /\ hist = <<UeCall(upsert_mapping)>>
\* the leader of the ballot: the lowest lane with key_match in the earliest
\* pass that has one, which visits the lowest slot of the mask not yet tried.
\* It compares the slot's key and, if equal, stores the value; the call then
\* returns __ffs(my_tile.ballot(ballot)) - 1, the leader's lane.
upsert_existing_leader ==
  LET l == grp[1]
      i == Min(l.m0)
      leader == i % script[1]
  IN /\ l.pc = "ballot" /\ l.m0 # {}
     /\ IF buckets[0][i].key = l.key
        THEN /\ buckets' = [buckets EXCEPT ![0][i].val = l.val]
             /\ grp' = [grp EXCEPT ![1] = Idle]
             /\ hist' = hist \o <<Effect(1, [l EXCEPT !.cur = i], "update"),
                                  Ev("ret", 1, l.op, l.key, l.val, TRUE, leader)>>
        ELSE /\ buckets' = buckets
             /\ grp' = [grp EXCEPT ![1] = [l EXCEPT !.m0 = @ \ {i}]]
             /\ hist' = hist
     /\ UNCHANGED <<n_buckets, metadata, locks, hashes, script, nops>>
\* no lane is left with key_match: return -1
upsert_existing_none ==
  LET l == grp[1]
  IN /\ l.pc = "ballot" /\ l.m0 = {}
     /\ grp' = [grp EXCEPT ![1] = Idle]
     /\ hist' = Append(hist, Ev("ret", 1, l.op, l.key, l.val, FALSE, -1))
     /\ UNCHANGED <<n_buckets, metadata, buckets, locks, hashes, script, nops>>
UeNext == upsert_existing_leader \/ upsert_existing_none
UeSpec == UeInit /\ [][UeNext]_vars

\* ------------------------------------ the three probes lane by lane: an
\* array of tag buckets of script[1] tags each, probed at bucket 0 by one
\* group of script[2] lanes; masks are integers, bit i for slot i
PbSizes == {4, 8, 16}
PbWidths == {2, 4, 8, 16}
PbLanes == 0..15
PbKey == 1
PbOtherTag == 2
\* tags of the array the model follows: reads of bucket 0 stay below it
MemTags == 16
\* uint16_t metadata[bucket_size] of consecutive buckets: the tag at
\* &metadata[a] of bucket 0
TagAt(a) == metadata[a \div script[1]][a % script[1]]
n_traversals(B, W) == ((B - 1) \div W + 1) * W
SET_BIT_MASK(index) == 2^index
\* the sum of f over S
RECURSIVE SumOver(_, _)
SumOver(f, S) ==
  IF S = {} THEN 0
  ELSE LET x == CHOOSE x \in S : TRUE IN f[x] + SumOver(f, S \ {x})
BitsOf(n) == {i \in 0..(MemTags - 1) : (n \div 2^i) % 2 = 1}
\* a | b | ... of the masks in S
BitOr(S) ==
  LET bits == UNION {BitsOf(n) : n \in S}
  IN SumOver([i \in bits |-> SET_BIT_MASK(i)], bits)
\* the values i takes in lane r: for (i = thread_rank; i < bound; i += size)
LaneIndexes(r, W, bound) == {i \in 0..(bound - 1) : i % W = r}
\* the lanes of the group that are in the loop with lane r in the pass of i
InPass(i, W, bound) == {x \in 0..(W - 1) : (i \div W) * W + x < bound}

\* load_fill_ballots: the mask of the tags equal to tag, as lane r returns it
load_fill_ballots(B, W, tag, r) ==
  LET valid(i) == i < B
      found(i) == valid(i) /\ TagAt(i) = tag
      \* my_tile.ballot(found) << offset, offset = i - thread_rank
      pass(i) ==
        LET offset == (i \div W) * W
            lanes == {x \in 0..(W - 1) : found(offset + x)}
        IN SumOver([x \in lanes |-> SET_BIT_MASK(x)], lanes) * 2^offset
  IN BitOr({pass(i) : i \in LaneIndexes(r, W, n_traversals(B, W))})

\* the loop body of the wide loads for lane index i, n tags to a load
LocalMask(B, tag, i, n) ==
  LET valid_to_load == i < (B - (1 \div n)) + 1
      js == {j \in 0..(n - 1) : TagAt(i * n + j) = tag}
  IN IF valid_to_load
     THEN SumOver([j \in js |-> SET_BIT_MASK(i * n + j)], js)
     ELSE 0

\* load_fill_ballots_big as lane r returns it. A lane whose index is past
\* the loop bound never enters the loop and keeps the zero it started with;
\* cg::reduce in a pass that not every lane of the group takes is undefined:
\* lost = FALSE gives the sum of the lanes that are there, lost = TRUE zero.
load_fill_ballots_big(B, W, tag, r, lost) ==
  LET bound == (n_traversals(B, W) - 1) \div 4 + 1
      reduce(i) ==
        LET lanes == InPass(i, W, bound)
            offset == (i \div W) * W
        IN IF lanes # 0..(W - 1) /\ lost THEN 0
           ELSE SumOver([x \in lanes |-> LocalMask(B, tag, offset + x, 4)], lanes)
  IN BitOr({reduce(i) : i \in LaneIndexes(r, W, bound)})

\* load_fill_ballots_huge as lane r returns it: every lane ors the masks of
\* its own loads, then all lanes take part in the final cg::reduce.
load_fill_ballots_huge_lane(B, W, tag, r) ==
  LET bound == (n_traversals(B, W) - 1) \div 8 + 1
      own(x) == BitOr({LocalMask(B, tag, i, 8) : i \in LaneIndexes(x, W, bound)})
      all == 0..(W - 1)
  IN BitOr({own(r), SumOver([x \in all |-> own(x)], all)})

\* the three masks of a probe for PbKey
PbMasks(f(_)) ==
  [e |-> f(get_empty_tag), t |-> f(get_tombstone_tag), m |-> f(get_tag(PbKey))]
PbRet(op, r, masks) ==
  [kind |-> "ret", g |-> 1, op |-> op, key |-> PbKey, val |-> defaultVal,
   ret |-> TRUE, rval |-> r, how |-> "none", b |-> 0, i |-> 0,
   e |-> masks.e, t |-> masks.t, m |-> masks.m]
\* tag arrays: one marked tag in a background of empty or of other tags
PbInit ==
  \E B \in PbSizes : \E W \in PbWidths : \E p \in 0..(MemTags - 1) :
  \E bg \in {get_empty_tag, PbOtherTag} :
  \E mark \in {get_empty_tag, get_tombstone_tag, get_tag(PbKey), PbOtherTag} :
    /\ n_buckets = MemTags \div B
    /\ metadata = [b \in 0..(MemTags \div B - 1) |->
                    [i \in 0..(B - 1) |-> IF b * B + i = p THEN mark ELSE bg]]
    /\ buckets = [b \in {0} |-> [i \in Slots |-> [key |-> defaultKey, val |-> defaultVal]]]
    /\ locks = [w \in {0} |-> {}]
    /\ hashes = [k \in {PbKey} |-> <<0, 0>>]
    /\ grp = [g \in Groups |->
               IF g = 1 THEN [Idle EXCEPT !.op = "probe", !.pc = "probe", !.key = PbKey]
               ELSE Idle]
    /\ script = <<B, W>>
    /\ nops = 0
    /\ hist = <<>>
PbReturn(ev) ==
  /\ grp[1].pc = "probe"
  /\ grp' = [grp EXCEPT ![1] = Idle]
  /\ hist' = Append(hist, ev)
  /\ UNCHANGED <<n_buckets, metadata, buckets, locks, hashes, script, nops>>
probe_small(r) ==
  /\ r < script[2]
  /\ PbReturn(PbRet("load_fill_ballots", r,
        PbMasks(LAMBDA tag : load_fill_ballots(script[1], script[2], tag, r))))
probe_big(r, lost) ==
  /\ r < script[2]
  /\ PbReturn(PbRet("load_fill_ballots_big", r,
        PbMasks(LAMBDA tag : load_fill_ballots_big(script[1], script[2], tag, r, lost))))
probe_huge(r) ==
  /\ r < script[2]
  /\ PbReturn(PbRet("load_fill_ballots_huge", r,
        PbMasks(LAMBDA tag : load_fill_ballots_huge_lane(script[1], script[2], tag, r))))
PbNext ==
  \/ \E r \in PbLanes : probe_small(r)
  \/ \E r \in PbLanes : \E lost \in BOOLEAN : probe_big(r, lost)
  \/ \E r \in PbLanes : probe_huge(r)
ProbeSpec == PbInit /\ [][PbNext]_vars

\* ------------------------------------ the lock table on its own: two lock
\* words, callers that lock and unlock buckets of LkBuckets (0, 1 and 63 share
\* word 0, 64 is bit 0 of word 1); script[1] holds the buckets whose bits
\* were set by holders the model does not follow
LkBuckets == {0, 1, LockWordBits - 1, LockWordBits}
LkHigh(bucket) == bucket \div LockWordBits
LkLow(bucket) == bucket % LockWordBits
LkInit ==
  \E foreign \in SUBSET LkBuckets :
    /\ n_buckets = 2 * LockWordBits
    /\ locks = [w \in 0..1 |-> {LkLow(b) : b \in {c \in foreign : LkHigh(c) = w}}]
    /\ metadata = <<>> /\ buckets = <<>>
    /\ hashes = [k \in OpKeys |-> <<0, 0>>]
    /\ grp = [g \in Groups |-> Idle]
    /\ script = <<foreign>>
    /\ nops = 0
    /\ hist = <<>>
\* a caller calls stall_lock_one_thread(bucket) on a bucket no other caller
\* of the model is working on
LkCall(g, bucket) ==
  /\ grp[g].op = "idle"
  /\ nops < MaxOps
  /\ \A h \in Groups \ {g} : grp[h].op = "idle" \/ grp[h].cur # bucket
  /\ grp' = [grp EXCEPT ![g] = [Idle EXCEPT !.op = "lock", !.pc = "spin", !.cur = bucket]]
  /\ nops' = nops + 1
  /\ UNCHANGED <<n_buckets, metadata, buckets, locks, hashes, script, hist>>
\* one turn of the loop of stall_lock_one_thread: atomicOr sets the bit and
\* the loop ends when the old word had it clear
stall_lock_one_thread(g) ==
  LET l == grp[g]
      high == LkHigh(l.cur)
      low == LkLow(l.cur)
  IN /\ l.pc = "spin"
     /\ locks' = [locks EXCEPT ![high] = @ \cup {low}]
     /\ grp' = [grp EXCEPT ![g] = IF low \in locks[high] THEN l
                                   ELSE [l EXCEPT !.pc = "held"]]
     /\ UNCHANGED <<n_buckets, metadata, buckets, hashes, script, nops, hist>>
\* mutant: atomicAnd with the mask itself, not with its complement
LkUnlock_NoComplement(g) ==
  LET l == grp[g]
      high == LkHigh(l.cur)
      low == LkLow(l.cur)
  IN /\ l.pc = "held"
     /\ locks' = [locks EXCEPT ![high] = @ \cap {low}]
     /\ grp' = [grp EXCEPT ![g] = Idle]
     /\ UNCHANGED <<n_buckets, metadata, buckets, hashes, script, nops, hist>>
\* unlock_bucket_one_thread(bucket): atomicAnd with ~SET_BIT_MASK(low)
LkUnlock(g) ==
  LET l == grp[g]
      high == LkHigh(l.cur)
      low == LkLow(l.cur)
  IN /\ l.pc = "held"
     /\ locks' = [locks EXCEPT ![high] = @ \ {low}]
     /\ grp' = [grp EXCEPT ![g] = Idle]
     /\ UNCHANGED <<n_buckets, metadata, buckets, hashes, script, nops, hist>>
LkNext ==
  \E g \in Groups :
    \/ \E bucket \in LkBuckets : LkCall(g, bucket)
    \/ stall_lock_one_thread(g)
    \/ LkUnlock(g)
LockSpec == LkInit /\ [][LkNext]_vars

\* ------------------------------------ find_with_reference lane by lane:
\* arrays of script[1]-slot buckets, the key's primary bucket 0 and secondary
\* bucket 1, one group of script[2] lanes
QyKey == 1
QyVal == 7
QyDecoy == 2^TagBits + 1
\* buckets of the arrays the model follows: the wide loads stay inside
QyBuckets(B) == 0..((32 \div B) - 1)
\* metadata[a] and slots[a] as addressed from bucket b
TagFrom(b, a) == metadata[(b * script[1] + a) \div script[1]][(b * script[1] + a) % script[1]]
PairFrom(b, a) == buckets[(b * script[1] + a) \div script[1]][(b * script[1] + a) % script[1]]
\* query_md_and_bucket_large on bucket b, run by the lanes of active: the
\* result of every lane of active. A lane whose index is past the loop bound
\* returns false at once. my_tile.ballot in a pass that not every lane of
\* the group takes is undefined: lost = FALSE gives the votes of the lanes
\* that are there, lost = TRUE none.
query_md_and_bucket_large(b, active, lost) ==
  LET B == script[1]
      W == script[2]
      bound == (n_traversals(B, W) - 1) \div 8 + 1
      lanes(k) == {x \in active : k * W + x < bound}
      found(k, j, x) ==
        LET i == k * W + x
            valid_to_load == i < (B - (1 \div 8)) + 1
        IN /\ valid_to_load
           /\ TagFrom(b, i * 8 + j) = get_tag(QyKey)
           /\ PairFrom(b, i * 8 + j).key = QyKey
      votes(k, j) ==
        IF lanes(k) # 0..(W - 1) /\ lost THEN {}
        ELSE {x \in lanes(k) : found(k, j, x)}
      steps == {s \in 0..(8 * ((bound - 1) \div W + 1) - 1) : votes(s \div 8, s % 8) # {}}
      s0 == Min(steps)
      leader == Min(votes(s0 \div 8, s0 % 8))
  IN [x \in active |->
       IF steps # {} /\ x \in lanes(s0 \div 8)
       THEN [found |-> TRUE,
             val |-> PairFrom(b, ((s0 \div 8) * W + leader) * 8 + (s0 % 8)).val]
       ELSE [found |-> FALSE, val |-> defaultVal]]
QyEv(kind, lanes) ==
  [kind |-> kind, g |-> 1, op |-> "find", key |-> QyKey, val |-> defaultVal,
   ret |-> TRUE, rval |-> defaultVal, how |-> "none", b |-> 0, i |-> 0,
   lanes |-> lanes]
\* the key in slot pos of bucket at (in no slot for at = 2), every other
\* slot empty or holding another key with the same tag
QyInit ==
  \E B \in PbSizes : \E W \in PbWidths : \E at \in 0..2 : \E pos \in 0..15 :
  \E decoy \in BOOLEAN :
    /\ pos < B
    /\ n_buckets = 32 \div B
    /\ metadata = [b \in QyBuckets(B) |-> [i \in 0..(B - 1) |->
                    IF (b = at /\ i = pos) \/ decoy THEN get_tag(QyKey)
                    ELSE get_empty_tag]]
    /\ buckets = [b \in QyBuckets(B) |-> [i \in 0..(B - 1) |->
                    IF b = at /\ i = pos THEN [key |-> QyKey, val |-> QyVal]
                    ELSE IF decoy THEN [key |-> QyDecoy, val |-> 9]
                    ELSE [key |-> defaultKey, val |-> defaultVal]]]
    /\ locks = [w \in {0} |-> {}]
    /\ hashes = [k \in {QyKey} |-> <<0, 1>>]
    /\ grp = [g \in Groups |->
               IF g = 1 THEN [Idle EXCEPT !.op = "find", !.pc = "q_primary", !.key = QyKey]
               ELSE Idle]
    /\ script = <<B, W>>
    /\ nops = 0
    /\ hist = <<>>
\* probe 1: the lanes that find the key return true, the others go on
find_primary(lost) ==
  LET res == query_md_and_bucket_large(0, 0..(script[2] - 1), lost)
  IN /\ grp[1].pc = "q_primary"
     /\ IF \A x \in DOMAIN res : res[x].found
        THEN /\ grp' = [grp EXCEPT ![1] = Idle]
             /\ hist' = Append(hist, QyEv("ret", res))
        ELSE /\ grp' = [grp EXCEPT ![1].pc = "q_secondary"]
             /\ hist' = Append(hist, QyEv("step", res))
     /\ UNCHANGED <<n_buckets, metadata, buckets, locks, hashes, script, nops>>
\* probe 2 by the lanes that are left, then every lane has returned
find_secondary(lost) ==
  LET first == hist[Len(hist)].lanes
      left == {x \in DOMAIN first : ~first[x].found}
      res == query_md_and_bucket_large(1, left, lost)
  IN /\ grp[1].pc = "q_secondary"
     /\ grp' = [grp EXCEPT ![1] = Idle]
     /\ hist' = Append(hist, QyEv("ret",
          [x \in DOMAIN first |-> IF x \in left THEN res[x] ELSE first[x]]))
     /\ UNCHANGED <<n_buckets, metadata, buckets, locks, hashes, script, nops>>
QyNext ==
  \/ \E lost \in BOOLEAN : find_primary(lost)
  \/ \E lost \in BOOLEAN : find_secondary(lost)
QuerySpec == QyInit /\ [][QyNext]_vars

\* ------------------------------------------------------ occupancy count
\* mutant: the count leaves the tombstone mask out
get_bucket_fill_EmptyOnly(bucket) ==
  bucket_size - Cardinality(load_fill_ballots_huge(bucket, defaultKey).e)
\* bucket_size - __popc(bucket_empty) - __popc(bucket_tombstone)
get_bucket_fill(bucket) ==
  LET masks == load_fill_ballots_huge(bucket, defaultKey)
  IN bucket_size - Cardinality(masks.e) - Cardinality(masks.t)
\* get_fill: one tile per bucket adds its bucket's count to item_count
get_fill == SumOver([b \in Buckets |-> get_bucket_fill(b)], Buckets)
\* what find_with_reference(k) returns when no writer is running: whether a
\* slot of one of the two candidate buckets has k's tag and holds k
Found(k) ==
  \E b \in {get_first_bucket(hashes[k]), get_second_bucket(hashes[k])} :
    \E i \in Slots : metadata[b][i] = get_tag(k) /\ query_verify(buckets[b][i], k)

\* ======================================================================
\* Properties
\* ======================================================================
SlotIds == Buckets \X Slots
\* the two candidate buckets of key k
Candidates(k) == {get_first_bucket(hashes[k]), get_second_bucket(hashes[k])}
\* the slots of k's primary and secondary bucket that hold k
Holding(k) ==
  {s \in SlotIds : s[1] \in Candidates(k) /\ buckets[s[1]][s[2]].key = k}

Max(S) == CHOOSE x \in S : \A y \in S : y <= x
Events == DOMAIN hist
IsRet(j, op) == hist[j].kind = "ret" /\ hist[j].op = op
\* the call event of the operation that returns at j
InvOf(j) ==
  Max({i \in 1..(j - 1) : hist[i].kind = "inv" /\ hist[i].g = hist[j].g})
\* the returns of operation op, and those that returned true
Rets(op) == {j \in Events : IsRet(j, op)}
TrueRets(op) == {j \in Events : IsRet(j, op) /\ hist[j].ret}
\* The newest event. hist only grows and the properties below read, for an
\* event j, the events up to j only: what holds of the newest event in every
\* reachable state holds of every event.
Latest == IF hist = <<>> THEN {} ELSE {Len(hist)}
LatestRet(op) == {j \in Latest : IsRet(j, op)}
\* the effects of the operation that returns at j
EffectsOf(j) ==
  {m \in InvOf(j)..j : hist[m].kind = "eff" /\ hist[m].g = hist[j].g}

\* The sequential map after the first p events, at key k ({} = absent), when
\* the events in W are its writes.
MapAt(k, p, W) ==
  LET ws == {m \in W : m <= p /\ hist[m].key = k}
  IN IF ws = {} THEN {}
     ELSE IF hist[Max(ws)].how = "erase" THEN {} ELSE {hist[Max(ws)].val}
\* writes = the effect steps of upserts and removes that succeeded
EffWrites == {m \in Events : hist[m].kind = "eff"}
FindResult(j) == IF hist[j].ret THEN {hist[j].rval} ELSE {}

\* ---------------------------------------------------------------------- C1
\* C1 (Uniqueness): in every reachable state, under any interleaving of
\* upsert_replace, remove and find_with_reference, each real key is held by
\* at most one slot across its primary and secondary buckets.
C1_Uniqueness ==
  LET held == {s \in SlotIds :
                 /\ buckets[s[1]][s[2]].key \notin {defaultKey, tombstoneKey}
                 /\ s[1] \in Candidates(buckets[s[1]][s[2]].key)}
  IN \* as many slots hold a real key of theirs as there are keys held
     Cardinality(held) = Cardinality({buckets[s[1]][s[2]].key : s \in held})

\* a key that sits in its secondary bucket, below a primary bucket that holds a
\* tombstone, has been upserted again and is still held once
C1_Witness ==
  \E k \in OpKeys :
    /\ Cardinality(Holding(k)) = 1
    /\ \A s \in Holding(k) : s[1] # get_first_bucket(hashes[k])
    /\ \E i \in Slots :
         metadata[get_first_bucket(hashes[k])][i] = get_tombstone_tag
    /\ \E j \in Events : /\ IsRet(j, "upsert") /\ hist[j].key = k /\ hist[j].ret
                         /\ \E m \in EffectsOf(j) : hist[m].how = "update"

\* no operation is in flight after the first p events
Quiet(p) ==
  Cardinality({m \in 1..p : hist[m].kind = "inv"})
    = Cardinality({m \in 1..p : hist[m].kind = "ret"})
\* the events of the operation that returns at j
OwnEvents(j) == {m \in InvOf(j)..j : hist[m].g = hist[j].g}
\* the operation that returns at j ran with no other operation in flight
RanAlone(j) == Quiet(InvOf(j) - 1) /\ OwnEvents(j) = InvOf(j)..j
\* key k is in the sequential map from the call to the return of operation j
PresentThroughout(k, j) ==
  \A p \in InvOf(j)..j : MapAt(k, p, EffWrites) # {}
AbsentThroughout(k, j) ==
  \A p \in InvOf(j)..j : MapAt(k, p, EffWrites) = {}

\* ---------------------------------------------------------------------- C2
\* C2 (Per-key linearizability): every history of upsert_replace, remove and
\* find_with_reference is linearizable, key by key, against a sequential map
\* in which an upsert that returns true writes at its store, a remove that
\* returns true erases at its compare-and-swap and an upsert or remove that
\* returns false changes nothing: a find returns what the map holds for its
\* key at some point between its call and its return, a successful upsert
\* updates iff the key is in the map, and a remove fails only on a key that
\* is not in the map at some point between its call and its return.
C2_Linearizable ==
  \A j \in Latest :
    LET k == hist[j].key
        effs == EffectsOf(j)
    IN /\ IsRet(j, "find") =>
            \E p \in InvOf(j)..j : FindResult(j) = MapAt(k, p, EffWrites)
       /\ IsRet(j, "upsert") =>
            IF hist[j].ret
            THEN /\ Cardinality(effs) = 1
                 /\ \A m \in effs :
                      /\ hist[m].how \in {"insert", "update"}
                      /\ hist[m].how = "update" <=> MapAt(k, m - 1, EffWrites) # {}
            ELSE effs = {}
       /\ IsRet(j, "remove") =>
            IF hist[j].ret
            THEN /\ Cardinality(effs) = 1
                 /\ \A m \in effs : /\ hist[m].how = "erase"
                                    /\ MapAt(k, m - 1, EffWrites) # {}
            ELSE /\ effs = {}
                 /\ \E p \in InvOf(j)..j : MapAt(k, p, EffWrites) = {}

\* a find returned the value that an upsert of its key stored while the find
\* was running
C2_Witness ==
  \E j \in Events :
    /\ IsRet(j, "find") /\ hist[j].ret
    /\ \E m \in InvOf(j)..j :
         /\ hist[m].kind = "eff" /\ hist[m].key = hist[j].key
         /\ hist[m].val = hist[j].rval
         /\ MapAt(hist[j].key, InvOf(j), EffWrites) # {hist[j].rval}

\* C2 as stated: a find that starts after an upsert of its key has returned,
\* with no other write of that key since that upsert was called, returns the
\* value of that upsert, whatever the upsert returned.
C2_LatestUpsert ==
  \A j \in LatestRet("find") : \A u \in Rets("upsert") :
    ( /\ hist[u].key = hist[j].key
      /\ u < InvOf(j)
      /\ \A m \in InvOf(u)..j :
           (hist[m].key = hist[j].key /\ hist[m].kind \in {"eff", "ret"}
              /\ hist[m].op # "find")
             => m \in OwnEvents(u) )
    => FindResult(j) = {hist[u].val}

\* ---------------------------------------------------------------------- C3
\* C3 (Upsert of an existing key is update-in-place): whenever key k is in
\* the table from the call to the return of upsert_replace(k, v2), the
\* upsert returns true, its one effect is the store of v2 into the slot that
\* holds k, and it claims no slot.
C3_UpdateInPlace ==
  \A j \in LatestRet("upsert") :
    PresentThroughout(hist[j].key, j)
    => /\ hist[j].ret
       /\ \A m \in EffectsOf(j) : hist[m].how = "update"

\* ---------------------------------------------------------------------- C4
\* C4 (Round trip): an upsert_replace(k, v) that runs alone and returns true,
\* followed immediately by a find_with_reference(k) that runs alone, makes
\* the find return found with value v.
C4_RoundTrip ==
  \A j \in LatestRet("find") :
    ( /\ RanAlone(j)
      /\ InvOf(j) > 1
      /\ IsRet(InvOf(j) - 1, "upsert") /\ RanAlone(InvOf(j) - 1)
      /\ hist[InvOf(j) - 1].key = hist[j].key
      /\ hist[InvOf(j) - 1].ret )
    => FindResult(j) = {hist[InvOf(j) - 1].val}

\* an upsert stored its pair in the key's secondary bucket and the find that
\* followed returned that value
C4_Witness ==
  \E j \in Events :
    /\ IsRet(j, "find") /\ RanAlone(j) /\ InvOf(j) > 1
    /\ IsRet(InvOf(j) - 1, "upsert") /\ RanAlone(InvOf(j) - 1)
    /\ hist[InvOf(j) - 1].key = hist[j].key
    /\ hist[InvOf(j) - 1].ret
    /\ hist[j].ret /\ hist[j].rval = hist[InvOf(j) - 1].val
    /\ \E m \in EffectsOf(InvOf(j) - 1) :
         hist[m].b # get_first_bucket(hashes[hist[j].key])

\* C4 as stated: the round trip in every reachable state, whatever the upsert
\* returned.
C4_RoundTripAlways ==
  \A j \in LatestRet("find") :
    ( /\ RanAlone(j)
      /\ InvOf(j) > 1
      /\ IsRet(InvOf(j) - 1, "upsert") /\ RanAlone(InvOf(j) - 1)
      /\ hist[InvOf(j) - 1].key = hist[j].key )
    => FindResult(j) = {hist[InvOf(j) - 1].val}

\* between the call of operation r and the return of operation j, every
\* write or return of a writer on key k belongs to r or to j
NoOtherWriter(k, r, j) ==
  \A m \in InvOf(r)..j :
    (hist[m].key = k /\ hist[m].op # "find")
      => m \in OwnEvents(r) \cup OwnEvents(j)

\* ---------------------------------------------------------------------- C5
\* C5 (Deletion visibility): after remove(k) has returned true, and with no
\* other writer on k, (1) find_with_reference(k) returns not-found; (2) an
\* upsert_replace(k, v2) that follows the remove with no operation of any key
\* running from the remove's call to the upsert's return returns true; and
\* (3) after an upsert_replace(k, v2) that followed the remove and returned
\* true, find_with_reference(k) returns v2.
C5_DeletionVisibility ==
  /\ \A j \in LatestRet("find") : \A r \in TrueRets("remove") :
       LET k == hist[r].key
       IN /\ (hist[j].key = k /\ r < InvOf(j) /\ NoOtherWriter(k, r, j))
               => FindResult(j) = {}
          /\ \A u \in TrueRets("upsert") :
               ( /\ hist[u].key = k /\ r < InvOf(u) /\ NoOtherWriter(k, r, u)
                 /\ hist[j].key = k /\ u < InvOf(j) /\ NoOtherWriter(k, u, j) )
               => FindResult(j) = {hist[u].val}
  /\ \A u \in LatestRet("upsert") : \A r \in TrueRets("remove") :
       ( /\ hist[u].key = hist[r].key /\ InvOf(u) = r + 1
         /\ RanAlone(r) /\ RanAlone(u) )
       => hist[u].ret

\* remove(k) returned true, a find of k returned not-found, upsert(k, v2)
\* then returned true and the find after it returned v2
C5_Witness ==
  \E r \in TrueRets("remove") : \E u \in TrueRets("upsert") :
    /\ hist[u].key = hist[r].key /\ r < InvOf(u)
    /\ \E f \in Rets("find") :
         /\ hist[f].key = hist[r].key /\ ~hist[f].ret
         /\ r < InvOf(f) /\ f < InvOf(u)
    /\ \E j \in Rets("find") :
         /\ hist[j].key = hist[r].key /\ u < InvOf(j)
         /\ hist[j].ret /\ hist[j].rval = hist[u].val

\* C5 as stated: with no concurrent operation on k, the upsert_replace(k, v2)
\* that follows a successful remove(k) returns true.
C5_SubsequentUpsert ==
  \A r \in TrueRets("remove") : \A j \in LatestRet("upsert") :
    ( /\ hist[j].key = hist[r].key
      /\ r < InvOf(j)
      /\ NoOtherWriter(hist[r].key, r, j) )
    => hist[j].ret

\* ---------------------------------------------------------------------- C6
\* C6 (Tombstone reuse): when remove(k1) has tombstoned a slot of a candidate
\* bucket of k2, k2 is not in the table, the two candidate buckets of k2 hold
\* no empty slot and no other tombstone, and upsert_replace(k2, v2) follows
\* with nothing else running, the upsert returns true and stores (k2, v2) in
\* the slot the remove tombstoned.
C6_TombstoneReuse ==
  \A j \in LatestRet("upsert") :
    ( /\ RanAlone(j) /\ InvOf(j) > 1
      /\ IsRet(InvOf(j) - 1, "remove") /\ hist[InvOf(j) - 1].ret
      /\ RanAlone(InvOf(j) - 1)
      /\ hist[InvOf(j) - 1].key # hist[j].key
      /\ MapAt(hist[j].key, InvOf(j), EffWrites) = {} )
    => \A m \in EffectsOf(InvOf(j) - 1) :
         ( /\ hist[m].b \in Candidates(hist[j].key)
           /\ \A b \in Candidates(hist[j].key) : \A i \in Slots :
                /\ metadata[b][i] # get_empty_tag
                /\ metadata[b][i] = get_tombstone_tag
                     => (b = hist[m].b /\ i = hist[m].i) )
         => /\ hist[j].ret
            /\ \A e \in EffectsOf(j) :
                 /\ hist[e].how = "insert"
                 /\ hist[e].b = hist[m].b /\ hist[e].i = hist[m].i
            /\ buckets[hist[m].b][hist[m].i]
                 = [key |-> hist[j].key, val |-> hist[j].val]
            /\ metadata[hist[m].b][hist[m].i] = get_tag(hist[j].key)

\* the upsert of k2 that followed the remove of k1 stored its pair in the slot
\* the remove had tombstoned, in buckets with no empty slot
C6_Witness ==
  \E j \in Events :
    /\ j = Len(hist)
    /\ IsRet(j, "upsert") /\ RanAlone(j) /\ InvOf(j) > 1 /\ hist[j].ret
    /\ IsRet(InvOf(j) - 1, "remove") /\ hist[InvOf(j) - 1].ret
    /\ RanAlone(InvOf(j) - 1)
    /\ hist[InvOf(j) - 1].key # hist[j].key
    /\ \A b \in Candidates(hist[j].key) : \A i \in Slots :
         metadata[b][i] \notin {get_empty_tag, get_tombstone_tag}
    /\ \E m \in EffectsOf(InvOf(j) - 1) : \E e \in EffectsOf(j) :
         hist[e].b = hist[m].b /\ hist[e].i = hist[m].i

\* ---------------------------------------------------------------------- C7
Invs == {m \in Events : hist[m].kind = "inv"}
UpsertedKeys == {hist[m].key : m \in Invs}
\* the history is N upserts of N distinct keys into the empty table
DistinctUpserts ==
  /\ \A m \in Invs : hist[m].op = "upsert"
  /\ Cardinality(UpsertedKeys) = Cardinality(Invs)
\* the table has at least N / P2_MD_CUTOFF slots
SizedFor(N) ==
  N * P2_MD_CUTOFF_DEN <= n_buckets * bucket_size * P2_MD_CUTOFF_NUM
\* fewer other keys have a candidate bucket of k among theirs than the
\* candidate buckets of k have slots
NotCrowded(k) ==
  Cardinality({k2 \in UpsertedKeys \ {k} :
                 Candidates(k2) \cap Candidates(k) # {}})
    < bucket_size * Cardinality(Candidates(k))
Retrievable(k, v) ==
  \E s \in Holding(k) : /\ metadata[s[1]][s[2]] = get_tag(k)
                        /\ buckets[s[1]][s[2]].val = v
StoredKeys ==
  {buckets[s[1]][s[2]].key : s \in SlotIds} \ {defaultKey, tombstoneKey}

\* C7 (Concurrent insert disjointness): when the groups upsert N distinct
\* keys into the initially empty table, the table has at least N/0.75 slots
\* and, for each key, fewer of the other keys share one of its candidate
\* buckets than those buckets have slots, every upsert returns true and, once
\* all have returned, exactly those N keys are retrievable, each with the
\* value its own upsert wrote.
C7_InsertDisjointness ==
  \A j \in LatestRet("upsert") :
    ( /\ DistinctUpserts
      /\ SizedFor(Cardinality(Invs))
      /\ \A k \in UpsertedKeys : NotCrowded(k) )
    => /\ hist[j].ret
       /\ Quiet(j) =>
            /\ StoredKeys = UpsertedKeys
            /\ \A u \in Rets("upsert") : Retrievable(hist[u].key, hist[u].val)

\* two upserts of distinct keys with different primary buckets ran at the
\* same time, stored their pairs in the same bucket, and all upserts of the
\* history are retrievable
C7_Witness ==
  /\ DistinctUpserts /\ SizedFor(Cardinality(Invs))
  /\ \A k \in UpsertedKeys : NotCrowded(k)
  /\ Invs # {} /\ Quiet(Len(hist))
  /\ \A j \in Rets("upsert") : hist[j].ret /\ Retrievable(hist[j].key, hist[j].val)
  /\ \E j1 \in Rets("upsert") : \E j2 \in Rets("upsert") :
       /\ InvOf(j1) < InvOf(j2) /\ InvOf(j2) < j1
       /\ get_first_bucket(hashes[hist[j1].key])
            # get_first_bucket(hashes[hist[j2].key])
       /\ \E e1 \in EffectsOf(j1) : \E e2 \in EffectsOf(j2) :
            hist[e1].b = hist[e2].b

\* C7 as stated: N distinct keys into the empty table of at least N/0.75
\* slots, whatever the candidate buckets of the keys: every upsert returns
\* true.
C7_AnyAssignment ==
  \A j \in LatestRet("upsert") :
    (DistinctUpserts /\ SizedFor(Cardinality(Invs))) => hist[j].ret

\* ---------------------------------------------------------------------- C8
\* C8 (Table-full failure): when an upsert_replace that ran with no other
\* operation in flight has just returned false, neither candidate bucket of
\* its key has an empty tag, a tombstone tag or a slot holding the key.
C8_FalseOnlyWhenFull ==
  \A j \in LatestRet("upsert") :
    (RanAlone(j) /\ ~hist[j].ret)
    => /\ Holding(hist[j].key) = {}
       /\ \A b \in Candidates(hist[j].key) : \A i \in Slots :
            metadata[b][i] \notin {get_empty_tag, get_tombstone_tag}

\* ---------------------------------------------------------------------- C9
\* this remove has erased its key already
Erased(l) == l.pc = "set_tomb" \/ (l.pc = "unlock" /\ l.ret)
\* C9 (Operations on an absent key): a remove or a find of a key that is in
\* the table at no point between its call and its return returns false; every
\* step of a remove whose key no slot holds leaves all tags and all slots
\* unchanged, and when that remove returns the lock bit of its primary bucket
\* is clear.
C9_AbsentKey ==
  /\ [](\A j \in LatestRet("remove") \cup LatestRet("find") :
          AbsentThroughout(hist[j].key, j) => ~hist[j].ret)
  /\ [][\A g \in Groups :
          ( /\ grp[g].op = "remove" /\ grp'[g] # grp[g]
            /\ Holding(grp[g].key) = {} /\ ~Erased(grp[g]) )
          => /\ metadata' = metadata /\ buckets' = buckets
             /\ grp'[g].op = "idle" =>
                  /\ ~hist'[Len(hist')].ret
                  /\ (bucket_0(grp[g]) % LockWordBits)
                       \notin locks'[bucket_0(grp[g]) \div LockWordBits]]_vars

\* a remove of an absent key whose tag matches a slot of a candidate bucket
\* has returned false with the lock bit of its primary bucket clear
C9_Witness ==
  \E j \in Rets("remove") :
    /\ j = Len(hist) /\ ~hist[j].ret
    /\ AbsentThroughout(hist[j].key, j)
    /\ \E b \in Candidates(hist[j].key) : \E i \in Slots :
         metadata[b][i] = get_tag(hist[j].key)
    /\ ~LockHeld(get_first_bucket(hashes[hist[j].key]))

\* --------------------------------------------------------------------- C10
\* progress of a find: the bucket it is on, then the candidate it is on
FindMeasure(l) ==
  l.bk * (bucket_size + 1) + (IF l.pc = "q_pair" THEN l.cur + 1 ELSE 0)
\* C10 (Query is lock-free and read-only): a find_with_reference is never at
\* the lock and can always take its next step, whatever the lock table holds;
\* each of its steps leaves all slots, tags and lock bits unchanged and either
\* returns or advances its position in the probe, which has at most
\* 2 * (bucket_size + 1) positions.
C10_QueryLockFree ==
  /\ [](\A g \in Groups : grp[g].op = "find" =>
          /\ grp[g].pc \in {"q_tags", "q_pair"}
          /\ FindMeasure(grp[g]) < 2 * (bucket_size + 1)
          /\ ENABLED (QueryTags(g) \/ QueryPair(g)))
  /\ [][\A g \in Groups :
          (grp[g].op = "find" /\ grp'[g] # grp[g])
          => /\ metadata' = metadata /\ buckets' = buckets /\ locks' = locks
             /\ \/ grp'[g].op = "idle"
                \/ FindMeasure(grp'[g]) > FindMeasure(grp[g])]_vars

\* a find has returned while another group, which had written before the find
\* was called and has not yet returned, held the lock of the find key's
\* primary bucket
C10_Witness ==
  \E j \in Rets("find") :
    /\ j = Len(hist)
    /\ LockHeld(get_first_bucket(hashes[hist[j].key]))
    /\ \E m \in 1..(InvOf(j) - 1) :
         /\ hist[m].kind = "eff" /\ hist[m].g # hist[j].g
         /\ get_first_bucket(hashes[hist[m].key])
              = get_first_bucket(hashes[hist[j].key])
         /\ \A n \in m..j : ~(hist[n].kind = "ret" /\ hist[n].g = hist[m].g)

\* --------------------------------------------------------------------- C11
\* the groups between their return from stall_lock(b) and their call of
\* unlock(b)
Owners(b) ==
  {g \in Groups : /\ grp[g].op \in {"upsert", "remove"}
                  /\ grp[g].pc \notin {"idle", "lock"}
                  /\ bucket_0(grp[g]) = b}
\* C11 (Lock mutual exclusion and ownership): for every bucket b, at most one
\* group is between its return from stall_lock(b) and its call of unlock(b),
\* the lock bit of b is set exactly while some group is in that section, and a
\* step that clears the bit of b is the unlock of the group in that section.
C11_LockExclusion ==
  /\ [](\A b \in Buckets : /\ Cardinality(Owners(b)) <= 1
                           /\ LockHeld(b) <=> Owners(b) # {})
  /\ [][\A b \in Buckets :
          (LockHeld(b) /\ ~LockHeld(b)')
            => \E g \in Owners(b) : grp[g].pc = "unlock" /\ grp'[g].op = "idle"]_vars

\* a group spins in stall_lock on the bucket whose lock another group holds
\* after that group has written
C11_Witness ==
  \E g \in Groups : \E h \in Groups \ {g} :
    /\ grp[g].pc = "lock"
    /\ h \in Owners(bucket_0(grp[g]))
    /\ grp[h].pc = "unlock"
    /\ LockHeld(bucket_0(grp[g]))

\* --------------------------------------------------------------------- C12
LockBits == {b \in Buckets : LockHeld(b)}
\* C12 (Single-lock discipline and deadlock freedom): a step of an
\* upsert_replace or remove changes no lock bit but that of its key's primary
\* bucket; as many lock bits are set as groups are past stall_lock, so a group
\* in stall_lock holds none; the bit of the secondary bucket is never needed
\* for a step (every group past stall_lock can take its next step); and
\* whenever an operation is in progress some group can take a step.
C12_SingleLock ==
  /\ [](/\ Cardinality(LockBits)
            = Cardinality({g \in Groups : grp[g].op \in {"upsert", "remove"}
                                            /\ grp[g].pc \notin {"idle", "lock"}})
        /\ \A g \in Groups :
             grp[g].pc \notin {"idle", "lock"} => ENABLED GroupStep(g)
        /\ (\E g \in Groups : grp[g].op # "idle")
             => \E g \in Groups : ENABLED GroupStep(g))
  /\ [][\A g \in Groups : \A b \in Buckets :
          (grp'[g] # grp[g] /\ LockHeld(b)' # LockHeld(b))
            => b = bucket_0(grp[g])]_vars

\* a group has stored into its key's secondary bucket while another group
\* held the lock bit of that bucket
C12_Witness ==
  /\ hist # <<>>
  /\ LET e == hist[Len(hist)]
     IN /\ e.kind = "eff"
        /\ e.b # get_first_bucket(hashes[e.key])
        /\ LockHeld(e.b)
        /\ \E h \in Owners(e.b) : h # e.g
        /\ LockHeld(get_first_bucket(hashes[e.key]))

\* --------------------------------------------------------------------- C13
\* the call event of the operation group g is running
CallOf(g) == Max({i \in Events : hist[i].kind = "inv" /\ hist[i].g = g})
\* the slots other groups have claimed since group g's operation was called:
\* those whose pair is written and those still to be written
ClaimsByOthers(g) ==
  Cardinality({m \in CallOf(g)..Len(hist) :
                 hist[m].kind = "eff" /\ hist[m].how = "insert" /\ hist[m].g # g})
  + Cardinality({h \in Groups \ {g} : grp[h].pc = "write"})
\* the slots of the buckets the insert loop of l probes
ProbedSlots(l) == IF l.phase = "two" THEN 2 * bucket_size ELSE bucket_size
AllIdle == \A g \in Groups : grp[g].op = "idle"
Snaps == {m \in Events : hist[m].kind = "snap"}
\* what an effect did: the kind of write, the slot and the value
Did(m) == <<hist[m].how, hist[m].b, hist[m].i, hist[m].val>>
IncRets(k) == {m \in Events : IsRet(m, "increment") /\ hist[m].key = k}
IncTrueRets(k) == {m \in IncRets(k) : hist[m].ret}
\* the value the table holds for k when the first increment is called
\* ({} = absent)
BaseOf(k) ==
  LET incs == {m \in Events : hist[m].kind = "inv" /\ hist[m].op = "increment"}
  IN MapAt(k, IF incs = {} THEN Len(hist) ELSE Min(incs), EffWrites)
ValueOf(S) == IF S = {} THEN defaultVal ELSE CHOOSE v \in S : TRUE
\* the value stored for k now
StoredOf(k) == ValueOf({buckets[s[1]][s[2]].val : s \in Holding(k)})
\* C15 (No lost updates under caller-held key locks), for the keys the table
\* holds when the increments start (their upserts need no free slot): once
\* all increments have returned, the value stored for the key is the value
\* it had plus the number of increments applied to it.
C15_NoLostUpdate ==
  (AllIdle /\ script = <<>>) =>
    \A k \in OpKeys :
      BaseOf(k) # {} =>
        StoredOf(k) = ValueOf(BaseOf(k)) + Cardinality(IncRets(k))

\* whatever the table holds: once all increments have returned, the value
\* stored for a key is the value it had plus the number of its increments
\* whose upsert_no_lock returned true
IncrementsThatStored ==
  (AllIdle /\ script = <<>>) =>
    \A k \in OpKeys :
      StoredOf(k) = ValueOf(BaseOf(k)) + Cardinality(IncTrueRets(k))

\* --------------------------------------------------------------------- C16
\* ceil(c / bucket_size)
CeilBuckets(c) == (c + bucket_size - 1) \div bucket_size
\* the sizes are as the claim has them for capacity c
SizedAsClaimed(c) ==
  /\ n_buckets = CeilBuckets(c)
  /\ n_buckets * bucket_size >= c
  /\ (n_buckets - 1) * bucket_size < c
  /\ \A b \in Buckets : (b \div LockWordBits) \in DOMAIN locks
  /\ DOMAIN locks = 0..((n_buckets - 1) \div LockWordBits)
  /\ DOMAIN metadata = Buckets /\ DOMAIN buckets = Buckets
\* C16 (Construction sizing): for every requested capacity, 0 included, once
\* generate_on_device has allocated, n_buckets = ceil(capacity / bucket_size),
\* n_buckets * bucket_size is the smallest multiple of bucket_size that is at
\* least the capacity, and the lock array has the word of every bucket's bit.
C16_Sizing ==
  Len(hist) = 2 => SizedAsClaimed(hist[1].val)

\* the same for every capacity from 1 on
SizingFromOne ==
  (Len(hist) = 2 /\ hist[1].val >= 1) => SizedAsClaimed(hist[1].val)

\* --------------------------------------------------------------------- C17
\* C17 (Initial state): once generate_on_device has returned, whatever the
\* allocated memory held, every tag of every bucket is the empty tag and every
\* slot holds (defaultKey, defaultVal); when it returns, and whenever no
\* operation is in progress after that, the lock bit of every bucket is clear;
\* and every find_with_reference and every remove on that table returns false.
C17_FreshTable ==
  /\ Constructed =>
       /\ \A b \in Buckets : \A i \in Slots :
            /\ metadata[b][i] = get_empty_tag
            /\ buckets[b][i] = [key |-> defaultKey, val |-> defaultVal]
       /\ AllIdle => \A b \in Buckets : ~LockHeld(b)
  /\ \A j \in LatestRet("find") \cup LatestRet("remove") : ~hist[j].ret

\* on a table of two or more buckets whose memory was allocated holding the
\* tag and pairs of key 1 and set lock bits, a remove of key 1 has returned
\* false after a find of key 1 returned false
C17_Witness ==
  /\ Constructed /\ n_buckets >= 2
  /\ hist[2].kind = "alloc" /\ hist[2].ret
  /\ \E j \in LatestRet("remove") :
       /\ hist[j].key = 1 /\ ~hist[j].ret
       /\ \E f \in Rets("find") : hist[f].key = 1 /\ ~hist[f].ret

\* --------------------------------------------------------------------- C18
\* the calls of upsert_replace(k, v) among the first j events
UpsertCalls(k, v, j) ==
  {m \in 1..j : /\ hist[m].kind = "inv" /\ hist[m].op = "upsert"
                /\ hist[m].key = k /\ hist[m].val = v}
\* C18 (No torn or foreign reads): under any interleaving with upserts and
\* removes of any keys, a find_with_reference(k) that returns found returns
\* a value v such that upsert_replace(k, v) was called before the find
\* returned; no two upserts of the history carry the same value for different
\* keys and none carries the default value, so v is neither the default value
\* of a slot reserved and not yet written, nor the value a removed key left in
\* the slot, nor the value of another key.
C18_NoForeignRead ==
  /\ \A j \in LatestRet("find") :
       hist[j].ret => UpsertCalls(hist[j].key, hist[j].rval, j) # {}
  /\ \A m \in Latest :
       (hist[m].kind = "inv" /\ hist[m].op = "upsert") =>
         /\ hist[m].val # defaultVal
         /\ \A n \in 1..m :
              (hist[n].kind = "inv" /\ hist[n].op = "upsert"
                 /\ hist[n].val = hist[m].val) => hist[n].key = hist[m].key

\* a find that was called before an upsert of its key stored the pair has
\* returned that upsert's value from a slot in which a removed key of the
\* same tag had left its value
C18_Witness ==
  \E j \in LatestRet("find") :
    /\ hist[j].ret
    /\ \E e \in InvOf(j)..j :
         /\ hist[e].kind = "eff" /\ hist[e].how = "insert"
         /\ hist[e].key = hist[j].key /\ hist[e].val = hist[j].rval
         /\ \E r \in 1..e :
              /\ hist[r].kind = "eff" /\ hist[r].how = "erase"
              /\ hist[r].key # hist[j].key
              /\ get_tag(hist[r].key) = get_tag(hist[j].key)
              /\ hist[r].b = hist[e].b /\ hist[r].i = hist[e].i

\* --------------------------------------------------------------------- C19
\* group g is a remove whose erase_reference of slot (b, i) has succeeded and
\* whose next step is set_tombstone(i)
RemoveErased(g, b, i) ==
  /\ grp[g].op \in {"remove", "remove_no_lock"} /\ grp[g].pc = "set_tomb"
  /\ BucketOf(grp[g]) = b /\ grp[g].cur = i
  /\ buckets[b][i].key = tombstoneKey
\* group g is an upsert whose next step is the match_tombstone CAS of (b, i)
ClaimsTombstone(g, b, i) ==
  /\ grp[g].pc = "mt_cas" /\ BucketOf(grp[g]) = b /\ grp[g].cur = i
  /\ metadata'[b][i] = get_tag(grp[g].key)
  /\ grp'[g].pc = "write"
NonEmptyTags(md, b) == Cardinality({i \in Slots : md[b][i] # get_empty_tag})
TagStep(b, i) ==
  /\ (metadata'[b][i] # metadata[b][i] /\ metadata'[b][i] = get_tombstone_tag)
       => \E g \in Groups : RemoveErased(g, b, i)
  /\ (metadata'[b][i] # metadata[b][i] /\ metadata[b][i] = get_tombstone_tag)
       => /\ \E g \in Groups : ClaimsTombstone(g, b, i)
          /\ metadata'[b][i] \notin {get_empty_tag, get_tombstone_tag}
  /\ metadata[b][i] # get_empty_tag => metadata'[b][i] # get_empty_tag
  /\ buckets[b][i].key # defaultKey => buckets'[b][i].key # defaultKey
\* C19 (Tombstone lifecycle): in every step, a tag becomes the tombstone tag
\* only by the set_tombstone of a remove whose erase_reference of that slot
\* succeeded, a tombstone tag changes only by a successful match_tombstone
\* CAS and then to a key tag, no tag and no slot key goes from non-empty back
\* to empty, and the number of non-empty tags of no bucket decreases.
C19_TombstoneLifecycle ==
  [][\A b \in Buckets :
       /\ \A i \in Slots : TagStep(b, i)
       /\ NonEmptyTags(metadata', b) >= NonEmptyTags(metadata, b)]_vars

\* a slot has been erased by a remove, tombstoned, and then claimed from its
\* tombstone and written by an upsert of another key
C19_Witness ==
  \E e \in Latest :
    /\ hist[e].kind = "eff" /\ hist[e].how = "insert"
    /\ metadata[hist[e].b][hist[e].i] = get_tag(hist[e].key)
    /\ \E r \in 1..e :
         /\ hist[r].kind = "eff" /\ hist[r].how = "erase"
         /\ hist[r].b = hist[e].b /\ hist[r].i = hist[e].i
         /\ hist[r].key # hist[e].key

\* --------------------------------------------------------------------- C20
\* the tag of slot (b, i) is the one its key calls for
Aligned(b, i) ==
  LET tag == metadata[b][i]
      key == buckets[b][i].key
  IN /\ tag = get_empty_tag <=> key = defaultKey
     /\ tag = get_tombstone_tag <=> key = tombstoneKey
     /\ (tag # get_empty_tag /\ tag # get_tombstone_tag) => tag = get_tag(key)
\* no upsert and no remove is in progress
Quiescent == \A g \in Groups : grp[g].op \in {"idle", "find"}
\* group g has claimed the tag of slot (b, i), has not stored the pair yet
\* and holds the lock of its key's primary bucket
Reserving(g, b, i) ==
  /\ grp[g].op = "upsert" /\ grp[g].pc = "write"
  /\ BucketOf(grp[g]) = b /\ grp[g].cur = i
  /\ LockHeld(bucket_0(grp[g])) /\ g \in Owners(bucket_0(grp[g]))
\* C20 (Tag/data alignment at quiescence): whenever no upsert and no remove
\* is in progress, every slot's tag is the empty tag iff its key is EMPTY_KEY,
\* the tombstone tag iff its key is TOMBSTONE_KEY, and get_tag of its key
\* otherwise; and a slot whose tag is claimed while its pair is not written
\* belongs to an upsert that still holds its lock and is about to store the
\* pair (or to a remove between its erase and its set_tombstone), so the pair
\* is written before the claiming group releases the lock.
C20_TagDataAligned ==
  /\ Quiescent => \A b \in Buckets : \A i \in Slots : Aligned(b, i)
  /\ \A b \in Buckets : \A i \in Slots :
       ~Aligned(b, i) => \E g \in Groups :
                           Reserving(g, b, i) \/ RemoveErased(g, b, i)
  /\ \A g \in Groups :
       (grp[g].op = "upsert" /\ grp[g].pc = "unlock" /\ grp[g].ret) =>
         \E i \in Slots : \E b \in {bucket_0(grp[g]), bucket_1(grp[g])} :
           buckets[b][i].key = grp[g].key /\ Aligned(b, i)

\* no upsert or remove is in progress, the last event is the return of an
\* upsert that claimed a tombstoned slot for a key whose tag get_tag had to
\* step off the empty tag, and the table has empty slots as well
C20_Witness ==
  /\ Quiescent
  /\ \E j \in LatestRet("upsert") :
       /\ hist[j].ret
       /\ get_tag(hist[j].key) # hist[j].key % 2^TagBits
       /\ \E e \in InvOf(j)..j : \E r \in 1..e :
            /\ hist[e].kind = "eff" /\ hist[e].how = "insert"
            /\ hist[e].g = hist[j].g
            /\ hist[r].kind = "eff" /\ hist[r].how = "erase"
            /\ hist[r].b = hist[e].b /\ hist[r].i = hist[e].i
            /\ buckets[hist[e].b][hist[e].i].key = hist[j].key
  /\ \E b \in Buckets : \E i \in Slots : metadata[b][i] = get_empty_tag

\* --------------------------------------------------------------------- C21
IsKeyTag(tag) == tag # get_empty_tag /\ tag # get_tombstone_tag
IsRealKey(key) == key # defaultKey /\ key # tombstoneKey
\* group g has claimed the tag of slot (b, i) for its key and has not stored
\* the pair yet
ClaimedUnwritten(g, b, i) ==
  /\ grp[g].pc = "write" /\ BucketOf(grp[g]) = b /\ grp[g].cur = i
  /\ metadata[b][i] = get_tag(grp[g].key)
\* group g has tombstoned the key of slot (b, i), whose tag is still that of
\* the removed key
ErasedUntagged(g, b, i) ==
  RemoveErased(g, b, i) /\ metadata[b][i] = get_tag(grp[g].key)
\* C21 (Write ordering): in every reachable state, also in the middle of
\* operations, a slot whose key is a real key has the tag get_tag of that key;
\* a slot whose key is EMPTY_KEY has the empty tag unless an insert has
\* claimed its tag and not yet written the pair; a slot whose key is
\* TOMBSTONE_KEY has the tombstone tag unless an insert has claimed it or the
\* remove that tombstoned the key has not yet stored the tombstone tag.
C21_WriteOrdering ==
  \A b \in Buckets : \A i \in Slots :
    LET tag == metadata[b][i]
        key == buckets[b][i].key
    IN /\ IsRealKey(key) => tag = get_tag(key)
       /\ (key = defaultKey /\ tag # get_empty_tag) =>
            /\ IsKeyTag(tag)
            /\ \E g \in Groups : ClaimedUnwritten(g, b, i)
       /\ (key = tombstoneKey /\ tag # get_tombstone_tag) =>
            /\ IsKeyTag(tag)
            /\ \E g \in Groups :
                 ClaimedUnwritten(g, b, i) \/ ErasedUntagged(g, b, i)

\* both transient states at once: one slot's tag is claimed while its key is
\* still EMPTY_KEY, another slot's key is tombstoned while its tag is still
\* the removed key's
C21_Witness ==
  \E g, h \in Groups :
    /\ \E b \in Buckets : \E i \in Slots :
         ClaimedUnwritten(g, b, i) /\ buckets[b][i].key = defaultKey
    /\ \E b \in Buckets : \E i \in Slots : ErasedUntagged(h, b, i)

\* --------------------------------------------------------------------- C22
\* the first of key, key + 1, ... (in the key type) whose low 16 bits are no
\* reserved tag
FirstUnreserved(key) ==
  LET ok(d) == ((key + d) % 2^KeyBits) % 2^TagBits
                 \notin {get_empty_tag, get_tombstone_tag}
      d == CHOOSE d \in 0..MaxTagSteps : ok(d) /\ \A c \in 0..(d - 1) : ~ok(c)
  IN (key + d) % 2^KeyBits
\* C22 (Tag derivation): for every key of the key type, with wrap-around on
\* key + 1, get_tag leaves its loop after at most two iterations and returns
\* a value fixed by the key: the key's low 16 bits when they are no reserved
\* tag, else the low 16 bits of the first successor key whose low 16 bits are
\* none; it never returns the empty tag or the tombstone tag.
C22_TagDerivation ==
  /\ (hist # <<>> /\ hist[1].op = "get_tag") =>
       /\ Cardinality({j \in DOMAIN hist : hist[j].kind = "step"}) <= 2
       /\ TagRunning => (ENABLED get_tag_loop \/ ENABLED get_tag_return)
  /\ \A j \in Latest :
       (hist[j].kind = "ret" /\ hist[j].op = "get_tag") =>
         LET key == hist[1].key
             low == key % 2^TagBits
         IN /\ hist[j].rval = FirstUnreserved(key) % 2^TagBits
            /\ low \notin {get_empty_tag, get_tombstone_tag} => hist[j].rval = low
            /\ hist[j].rval \notin {get_empty_tag, get_tombstone_tag}
            /\ hist[j].rval = get_tag(key)

\* get_tag has returned for the key at which the low 16 bits are the
\* tombstone tag and their successor the empty tag, after two iterations, the
\* second one on the key that wrapped around to 0
C22_Witness ==
  /\ hist # <<>> /\ hist[1].op = "get_tag" /\ hist[1].key = 2^KeyBits - 1
  /\ Len(hist) = 4 /\ hist[4].kind = "ret" /\ hist[4].rval = 1
  /\ hist[2].key = 0

\* --------------------------------------------------------------------- C23
\* tags of bucket b that are neither empty nor tombstone
LiveTags(b) == Cardinality({i \in Slots : IsKeyTag(metadata[b][i])})
\* tags of bucket b that are not empty (tombstones included)
UsedTags(b) == NonEmptyTags(metadata, b)
Below75(n) == n * P2_MD_CUTOFF_DEN < bucket_size * P2_MD_CUTOFF_NUM
KeyAbsent(k) ==
  \A b \in Buckets : \A i \in Slots : buckets[b][i].key # k
\* record l is at the claim the masks T and E call for: the lowest tombstoned
\* slot of bucket_0 if there is one, else its lowest empty slot
PrefersTombstone(l, T, E) ==
  /\ l.bk = 0
  /\ IF T # {} THEN l.pc = "mt_cas" /\ l.cur = Min(T)
     ELSE l.pc = "me_cas" /\ E # {} /\ l.cur = Min(E)
\* the step of group g, if it is the first probe of an upsert of an absent key
\* with the primary bucket below the cutoff (below), enters the shortcut; a
\* step inside the shortcut stays in bucket_0: tag matches are verified first,
\* lowest first, then the claim, then the pair store and the return of true
ShortcutStep(g, below) ==
  LET l == grp[g]
      n == grp'[g]
      p == load_fill_ballots_huge(bucket_0(l), l.key)
  IN /\ (/\ l.op = "upsert" /\ l.pc = "load0" /\ l.phase = "none" /\ n # l
         /\ KeyAbsent(l.key) /\ below)
          => /\ n.phase = "short"
             /\ IF p.m # {} THEN n.pc = "ue_load" /\ n.bk = 0 /\ n.cur = Min(p.m)
                ELSE PrefersTombstone(n, p.t, p.e)
     /\ (l.op = "upsert" /\ l.phase = "short" /\ n # l /\ l.pc # "unlock")
          => /\ n.phase = "short" /\ n.bk = 0 /\ n.reloads = 0
             /\ CASE l.pc = "ue_load" ->
                       \/ n.pc = "ue_store" /\ buckets[bucket_0(l)][l.cur].key = l.key
                       \/ n.pc = "ue_load" /\ n.cur > l.cur
                       \/ PrefersTombstone(n, l.t0, l.e0)
                  [] l.pc \in {"mt_cas", "me_cas"} -> n.pc = "write" /\ n.cur = l.cur
                  [] l.pc \in {"write", "ue_store"} ->
                       /\ n.pc = "unlock" /\ n.ret
                       /\ buckets'[bucket_0(l)][l.cur].key = l.key
                       /\ buckets'[bucket_0(l)][l.cur].val = l.val
                  [] OTHER -> FALSE
LiveBelowCutoff(g) == grp[g].op = "upsert" /\ Below75(LiveTags(bucket_0(grp[g])))
UsedBelowCutoff(g) == grp[g].op = "upsert" /\ Below75(UsedTags(bucket_0(grp[g])))
PrimaryPastCutoff(k) == ~Below75(UsedTags(get_first_bucket(hashes[k])))
\* key k sits in a slot of its secondary bucket, which is not its primary
InSecondary(k) ==
  /\ get_second_bucket(hashes[k]) # get_first_bucket(hashes[k])
  /\ \E i \in Slots : buckets[get_second_bucket(hashes[k])][i].key = k
ClaimPcs == {"mt_cas", "me_cas", "write"}
LiveOf(E, T) == bucket_size - Cardinality(E \cup T)
\* the bucket the masks of record l call for: the one with fewer key tags,
\* bucket_0 on a tie
Smaller(l) ==
  IF LiveOf(l.e0, l.t0) <= LiveOf(l.e1, l.t1) THEN 0 ELSE 1
\* record n is at the first claim in the bucket Smaller(l): its lowest
\* tombstoned slot, else its lowest empty slot, else the masks are reloaded
ClaimsInSmaller(n, l) ==
  LET b == Smaller(l)
      T == IF b = 0 THEN l.t0 ELSE l.t1
      E == IF b = 0 THEN l.e0 ELSE l.e1
  IN IF T # {} THEN n.pc = "mt_cas" /\ n.bk = b /\ n.cur = Min(T)
     ELSE IF E # {} THEN n.pc = "me_cas" /\ n.bk = b /\ n.cur = Min(E)
     ELSE n.pc = "load0"
\* record n verifies the lowest tag match of bucket_0, else of bucket_1, else
\* goes to the claim
MatchesFirst(n, l) ==
  IF l.m0 # {} THEN n.pc = "ue_load" /\ n.bk = 0 /\ n.cur = Min(l.m0)
  ELSE IF l.m1 # {} THEN n.pc = "ue_load" /\ n.bk = 1 /\ n.cur = Min(l.m1)
  ELSE ClaimsInSmaller(n, l)
\* a step of group g in the two-bucket phase
BalancedStep(g) ==
  LET l == grp[g]
      n == grp'[g]
      p == load_fill_ballots_huge(bucket_1(l), l.key)
      l1 == [l EXCEPT !.e1 = p.e, !.t1 = p.t, !.m1 = p.m]
  IN (l.op = "upsert" /\ l.phase = "two" /\ n # l) =>
       CASE l.pc = "load0" -> n.pc = "load1"
         [] l.pc = "load1" ->
              IF LiveOf(l1.e0, l1.t0) = bucket_size /\ LiveOf(l1.e1, l1.t1) = bucket_size
              THEN n.pc = "unlock" /\ ~n.ret
              ELSE MatchesFirst(n, l1)
         [] l.pc = "ue_load" ->
              IF buckets[BucketOf(l)][l.cur].key = l.key
              THEN n.pc = "ue_store" /\ n.bk = l.bk /\ n.cur = l.cur
              ELSE \/ n.pc = "ue_load" /\ n.bk = l.bk /\ n.cur > l.cur
                      /\ n.cur \in MatchOf(l)
                   \/ /\ l.bk = 0 /\ l.m1 # {}
                      /\ n.pc = "ue_load" /\ n.bk = 1 /\ n.cur = Min(l.m1)
                   \/ /\ l.bk = 1 \/ l.m1 = {}
                      /\ ClaimsInSmaller(n, l)
         [] l.pc = "ue_store" -> n.pc = "unlock" /\ n.ret /\ metadata' = metadata
         [] l.pc = "mt_cas" ->
              /\ l.bk = Smaller(l)
              /\ \/ n.pc = "write" /\ n.bk = l.bk /\ n.cur = l.cur
                 \/ n.pc = "mt_cas" /\ n.bk = l.bk /\ n.cur > l.cur
                 \/ n.pc = "me_cas" /\ n.bk = l.bk
                 \/ n.pc = "load0"
         [] l.pc = "me_cas" ->
              /\ l.bk = Smaller(l)
              /\ \/ n.pc = "write" /\ n.bk = l.bk /\ n.cur = l.cur
                 \/ n.pc = "me_cas" /\ n.bk = l.bk /\ n.cur > l.cur
                 \/ n.pc = "load0"
         [] l.pc = "write" -> n.pc = "unlock" /\ n.ret /\ l.bk = Smaller(l)
         [] OTHER -> n.op = "idle"
\* C25 (Power-of-two balancing): in the two-bucket phase of an upsert the tag
\* matches of bucket_0 and then of bucket_1 are verified, and a verified one
\* updated, before any claim; a slot is claimed in the bucket whose last
\* probe showed fewer key tags (bucket_0 on a tie), its tombstoned slots
\* before its empty ones; a claim that loses goes on in the same bucket or
\* back to the probes, never to the other bucket.
C25_Balanced == [][\A g \in Groups : BalancedStep(g)]_vars

\* an upsert has stored its pair in bucket_0 after probes that showed as many
\* key tags in bucket_1, having tried a tombstoned slot before the empty one
\* or having had only an empty one
C25_Witness ==
  \E g \in Groups :
    /\ grp[g].op = "upsert" /\ grp[g].phase = "two"
    /\ grp[g].pc = "unlock" /\ grp[g].ret /\ grp[g].bk = 0
    /\ bucket_0(grp[g]) # bucket_1(grp[g])
    /\ LiveOf(grp[g].e0, grp[g].t0) = LiveOf(grp[g].e1, grp[g].t1)
    /\ grp[g].cur \in grp[g].t0 \cup grp[g].e0

\* --------------------------------------------------------------------- C26
\* the groups that hold slot (b, i) from match_empty or match_tombstone and
\* have not stored their pair yet
Claimants(b, i) ==
  {g \in Groups : grp[g].pc = "write" /\ BucketOf(grp[g]) = b /\ grp[g].cur = i}
\* the pair stores into and the removals from slot (b, i)
SlotEvents(b, i) ==
  {j \in DOMAIN hist : /\ hist[j].kind = "eff" /\ hist[j].b = b /\ hist[j].i = i
                       /\ hist[j].how \in {"insert", "erase"}}
\* no pair has been stored into slot (b, i) since its last removal
Unwritten(b, i) ==
  \A j \in SlotEvents(b, i) :
    hist[j].how = "insert" =>
      \E r \in SlotEvents(b, i) : r > j /\ hist[r].how = "erase"
\* a group that holds a slot is the only one to hold it since the slot was
\* last removed
OneClaimPerSlot ==
  \A g \in Groups :
    grp[g].pc = "write" =>
      /\ Claimants(BucketOf(grp[g]), grp[g].cur) = {g}
      /\ Unwritten(BucketOf(grp[g]), grp[g].cur)
\* a step that stores a pair into slot (b, i) is taken by the one group that
\* holds the slot, which finds no live key in it
PairStoreStep(b, i) ==
  buckets'[b][i].key # buckets[b][i].key /\ IsRealKey(buckets'[b][i].key) =>
    /\ ~IsRealKey(buckets[b][i].key)
    /\ \E g \in Groups :
         /\ Claimants(b, i) = {g}
         /\ buckets'[b][i] = [key |-> grp[g].key, val |-> grp[g].val]
         /\ metadata[b][i] = get_tag(grp[g].key)
         /\ grp'[g].pc = "unlock"
\* C26 (Reservation exclusivity): under any interleaving, between two
\* removals of a slot at most one group obtains it from match_empty or
\* match_tombstone, and only that group stores a pair into it; so concurrent
\* upserts of different keys, one holding the lock of the bucket as its
\* primary and one using it as its secondary, never store into the same slot,
\* and no pair store replaces a live key.
C26_ReservationExclusive ==
  [][/\ OneClaimPerSlot
     /\ \A b \in Buckets : \A i \in Slots : PairStoreStep(b, i)]_vars

\* two upserts of different keys hold two slots of one bucket, the primary of
\* one and the secondary of the other; the one at the higher slot had the
\* lower slot in its mask and lost it to the other
C26_Witness ==
  \E g, h \in Groups :
    /\ grp[g].pc = "write" /\ grp[h].pc = "write"
    /\ grp[g].key # grp[h].key
    /\ BucketOf(grp[g]) = BucketOf(grp[h])
    /\ grp[g].bk = 0 /\ grp[h].bk = 1
    /\ grp[g].cur < grp[h].cur
    /\ grp[g].cur \in grp[h].e1 \cup grp[h].t1

\* --------------------------------------------------------------------- C27
\* the mask and the tag of the claim record l is in
ClaimMask(l) == IF l.pc = "mt_cas" THEN TombOf(l) ELSE EmptyOf(l)
ClaimFrom(l) == IF l.pc = "mt_cas" THEN get_tombstone_tag ELSE get_empty_tag
\* a step of group g into, inside or out of match_empty or match_tombstone
ClaimStep(g) ==
  LET l == grp[g]
      n == grp'[g]
      b == BucketOf(l)
      higher == {i \in ClaimMask(l) : i > l.cur}
  IN /\ (n.pc \in {"mt_cas", "me_cas"} /\ n.pc # l.pc) =>
          /\ ClaimMask(n) # {} /\ n.cur = Min(ClaimMask(n))
          /\ metadata' = metadata
     /\ (l.pc \in {"mt_cas", "me_cas"} /\ n # l) =>
          /\ l.cur \in ClaimMask(l)
          /\ IF metadata[b][l.cur] = ClaimFrom(l)
             THEN /\ n.pc = "write" /\ n.bk = l.bk /\ n.cur = l.cur
                  /\ metadata' = [metadata EXCEPT ![b][l.cur] = get_tag(l.key)]
             ELSE /\ metadata' = metadata
                  /\ IF higher # {}
                     THEN n.pc = l.pc /\ n.bk = l.bk /\ n.cur = Min(higher)
                     ELSE n.pc \notin {l.pc, "write"}
\* C27 (Claim selection): match_empty and match_tombstone try the set bits of
\* their mask in increasing slot index, starting at the lowest; the first CAS
\* that finds the tag still empty (tombstone) changes that one tag and ends
\* the call with that index; a CAS that finds the tag changed changes nothing
\* and passes to the next higher set bit; the call returns NONE, having
\* changed no tag, exactly when the CAS of every set bit has failed.
C27_ClaimSelection == [][\A g \in Groups : ClaimStep(g)]_vars

\* match_empty has returned the second set bit of its mask: the tag of the
\* first had been claimed by another group after the mask was read
C27_Witness ==
  \E g \in Groups :
    /\ grp[g].pc = "write" /\ grp[g].cur \in EmptyOf(grp[g])
    /\ grp[g].cur > Min(EmptyOf(grp[g]))
    /\ IsKeyTag(metadata[BucketOf(grp[g])][Min(EmptyOf(grp[g]))])
    /\ metadata[BucketOf(grp[g])][grp[g].cur] = get_tag(grp[g].key)

\* --------------------------------------------------------------------- C28
\* slot (b, i) does not hold key k: it holds another key, or a sentinel (also
\* while it is reserved and not yet written)
NotHolding(b, i, k) == buckets[b][i].key # k
\* a step of group g in upsert_existing or erase_reference
VerifyStep(g) ==
  LET l == grp[g]
      n == grp'[g]
      b == BucketOf(l)
  IN /\ (l.pc \in {"ue_load", "ue_store", "er_load", "er_cas"} /\ n # l) =>
          /\ \A c \in Buckets : \A i \in Slots :
               NotHolding(c, i, l.key) => buckets'[c][i] = buckets[c][i]
          /\ metadata' = metadata
     /\ (l.pc = "ue_load" /\ n # l /\ NotHolding(b, l.cur, l.key)) =>
          \/ n.pc = "ue_load" /\ (n.bk > l.bk \/ (n.bk = l.bk /\ n.cur > l.cur))
          \/ n.pc \in {"mt_cas", "me_cas"}
          \/ n.pc = "load0" /\ n.reloads = l.reloads + 1
     /\ (l.pc \in {"er_load", "er_cas"} /\ n # l /\ NotHolding(b, l.cur, l.key)) =>
          \/ n.pc = l.pc /\ n.bk = l.bk /\ n.cur > l.cur
          \/ n.pc = "er_load" /\ n.bk = l.bk /\ n.cur > l.cur
          \/ l.bk = 0 /\ n.pc = "r_load" /\ n.bk = 1
          \/ l.bk = 1 /\ n.pc = "unlock" /\ ~n.ret
     /\ (l.op = "upsert" /\ n.pc = "unlock" /\ l.pc # "unlock" /\ ~n.ret) =>
          /\ l.pc = "load1"
          /\ l.e0 = {} /\ l.t0 = {}
          /\ load_fill_ballots_huge(bucket_1(l), l.key).e = {}
          /\ load_fill_ballots_huge(bucket_1(l), l.key).t = {}
\* C28 (Tag false positives and lost races are transparent): when the tag of
\* a slot is get_tag(k) and the slot does not hold k (it holds another key, or
\* is reserved and not yet written), a step of upsert_replace(k, v) or of
\* remove(k) in upsert_existing or erase_reference changes neither the key nor
\* the value of that slot and no tag; the upsert goes on to its next match or
\* to the claim of a slot, and returns false only from probes that showed no
\* empty and no tombstoned slot in either bucket; the remove goes on to its
\* next match, then to the secondary bucket, and returns false after that.
C28_FalsePositiveTransparent == [][\A g \in Groups : VerifyStep(g)]_vars

\* an upsert has stored its pair in a slot it claimed after its tag match
\* turned out to be a slot of another key, which holds that key and its
\* value as before
C28_Witness ==
  \E g \in Groups :
    /\ grp[g].op = "upsert" /\ grp[g].pc = "unlock" /\ grp[g].ret
    /\ hist[Len(hist)].how = "insert" /\ hist[Len(hist)].g = g
    /\ \E i \in grp[g].m1 :
         LET s == buckets[bucket_1(grp[g])][i]
         IN /\ IsRealKey(s.key) /\ s.key # grp[g].key
            /\ get_tag(s.key) = get_tag(grp[g].key)
            /\ \E u \in DOMAIN hist : /\ hist[u].kind = "inv" /\ hist[u].op = "upsert"
                                      /\ hist[u].key = s.key /\ hist[u].val = s.val

\* --------------------------------------------------------------------- C29
\* key k is held by a slot of bucket b
HeldIn(k, b) == \E i \in Slots : buckets[b][i].key = k
\* a step of group g inside remove(k)
RemoveStep(g) ==
  LET l == grp[g]
      n == grp'[g]
      b == BucketOf(l)
      b0 == bucket_0(l)
      b1 == bucket_1(l)
  IN (l.op = "remove" /\ n # l) =>
       /\ CASE l.pc = "er_cas" /\ buckets[b][l.cur].key = l.key ->
                 /\ buckets' = [buckets EXCEPT ![b][l.cur].key = tombstoneKey]
                 /\ metadata' = metadata
                 /\ l.bk = 1 => ~HeldIn(l.key, b0)
                 /\ \A c \in {b0, b1} : \A i \in Slots :
                      buckets'[c][i].key # l.key
            [] l.pc = "set_tomb" ->
                 /\ metadata' = [metadata EXCEPT ![b][l.cur] = get_tombstone_tag]
                 /\ buckets' = buckets
                 /\ buckets[b][l.cur].key = tombstoneKey
                 /\ n.pc = "unlock" /\ n.ret
            [] OTHER -> metadata' = metadata /\ buckets' = buckets
       /\ CASE l.pc = "lock" ->
                 /\ ~LockHeld(b0)
                 /\ locks' = [locks EXCEPT ![b0 \div LockWordBits] =
                                             @ \cup {b0 % LockWordBits}]
            [] l.pc = "unlock" ->
                 /\ n.op = "idle"
                 /\ locks' = [locks EXCEPT ![b0 \div LockWordBits] =
                                             @ \ {b0 % LockWordBits}]
                 /\ b0 % LockWordBits \notin locks'[b0 \div LockWordBits]
                 /\ hist'[Len(hist')].kind = "ret" /\ hist'[Len(hist')].ret = l.ret
            [] OTHER -> locks' = locks /\ n.op = "remove"
       /\ (n.pc = "unlock" /\ l.pc # "unlock") =>
            /\ ~HeldIn(l.key, b0) /\ ~HeldIn(l.key, b1)
            /\ ~n.ret => /\ l.pc \in {"r_load", "er_load", "er_cas"} /\ l.bk = 1
                         /\ \A j \in CallOf(g)..Len(hist) :
                              ~(hist[j].kind = "eff" /\ hist[j].g = g)
\* C29 (Effect of remove): remove(k) returns true iff a slot of its primary
\* or secondary bucket held k when it probed: then the key of exactly that
\* slot becomes TOMBSTONE_KEY (the primary is searched before the secondary)
\* and then its tag the tombstone tag, and remove changes no other key, tag
\* or value; when it returns false it has searched both buckets, neither
\* holds k, and it has changed nothing; the only lock bit it changes is that
\* of the primary bucket, which is clear on return on every path.
C29_RemoveEffect == [][\A g \in Groups : RemoveStep(g)]_vars

\* a remove has returned true after it found nothing in its primary bucket
\* and erased and tombstoned a slot of its secondary bucket; its lock is clear
C29_Witness ==
  \E j \in LatestRet("remove") :
    /\ hist[j].ret
    /\ ~LockHeld(get_first_bucket(hashes[hist[j].key]))
    /\ \E e \in InvOf(j)..j :
         /\ hist[e].kind = "eff" /\ hist[e].how = "erase" /\ hist[e].g = hist[j].g
         /\ hist[e].b = get_second_bucket(hashes[hist[j].key])
         /\ hist[e].b # get_first_bucket(hashes[hist[j].key])
         /\ metadata[hist[e].b][hist[e].i] = get_tombstone_tag
         /\ buckets[hist[e].b][hist[e].i].key = tombstoneKey

\* --------------------------------------------------------------------- C30
\* the slots of the mask that held the key when upsert_existing was called
UeHolders ==
  {i \in hist[1].mask : hist[1].buckets[0][i].key = UeKey}
\* upsert_existing has returned at event j with slot index r for slot s, the
\* only slot it changed, whose value it overwrote
UeOverwrote(j, r, s) ==
  /\ hist[j - 1].kind = "eff" /\ hist[j - 1].i = s
  /\ buckets[0][s] = [key |-> UeKey, val |-> UeVal]
  /\ \A i \in Slots \ {s} : buckets[0][i] = hist[1].buckets[0][i]
  /\ r = s
\* C30 (upsert_existing result): for every group width, also one smaller
\* than bucket_size, upsert_existing returns the index of the slot whose
\* value it overwrote, a slot of the mask that holds the key, or NONE (-1)
\* when no slot of the mask holds the key, and then no slot is modified.
C30_UpsertExistingResult ==
  \A j \in LatestRet("upsert_existing") :
    IF UeHolders = {}
    THEN hist[j].rval = -1 /\ buckets = hist[1].buckets
    ELSE \E s \in UeHolders : UeOverwrote(j, hist[j].rval, s)

\* what the code returns: the lane of the leader, which is the slot index
\* exactly when the slot is below the group width
UpsertExistingLane ==
  \A j \in LatestRet("upsert_existing") :
    IF UeHolders = {}
    THEN hist[j].rval = -1 /\ buckets = hist[1].buckets
    ELSE
      /\ \E s \in UeHolders : UeOverwrote(j, s, s) /\ hist[j].rval = s % script[1]
      /\ script[1] >= bucket_size => \E s \in UeHolders : UeOverwrote(j, hist[j].rval, s)

\* --------------------------------------------------------------------- C31
\* the mask of the slots of bucket 0 whose tag is tag
TagMask(tag) ==
  LET is == {i \in 0..(script[1] - 1) : metadata[0][i] = tag}
  IN SumOver([i \in is |-> SET_BIT_MASK(i)], is)
\* the probe that returned at the newest event gave the masks of bucket 0
ExactMasks(ev) ==
  /\ ev.e = TagMask(get_empty_tag)
  /\ ev.t = TagMask(get_tombstone_tag)
  /\ ev.m = TagMask(get_tag(PbKey))
  /\ BitsOf(ev.e) \cap BitsOf(ev.t) = {}
  /\ BitsOf(ev.e) \cap BitsOf(ev.m) = {}
  /\ BitsOf(ev.t) \cap BitsOf(ev.m) = {}
\* C31 (probe masks): for every bucket_size and group width,
\* load_fill_ballots, load_fill_ballots_big and load_fill_ballots_huge
\* return the same three masks: bit i, i < bucket_size, is set iff tag i of
\* the bucket is the empty tag, the tombstone tag, the key's tag; no bit at
\* or above bucket_size is set and the masks are pairwise disjoint.
C31_ProbeMasks ==
  \A j \in DOMAIN hist : ExactMasks(hist[j])

\* what holds: load_fill_ballots is exact for every size and width;
\* load_fill_ballots_huge is exact in every lane when bucket_size is a
\* multiple of the 8 tags of one load and of the group width, and
\* load_fill_ballots_big when it is a multiple of 4 times the group width
ProbeMasksAligned ==
  \A j \in DOMAIN hist :
    LET B == script[1]
        W == script[2]
    IN /\ hist[j].op = "load_fill_ballots" => ExactMasks(hist[j])
       /\ hist[j].op = "load_fill_ballots_huge" /\ B % 8 = 0 /\ B % W = 0
            => ExactMasks(hist[j])
       /\ hist[j].op = "load_fill_ballots_big" /\ B % (4 * W) = 0
            => ExactMasks(hist[j])

\* --------------------------------------------------------------------- C32
\* C32 (group agreement on query): for every group width and bucket_size,
\* all lanes of a group that call find_with_reference with the same key
\* return the same found or not-found and, when found, the same value, the
\* one of the slot holding the key; no lane returns not-found while another
\* lane of the same call returns found.
C32_GroupAgreement ==
  \A j \in LatestRet("find") :
    \A x, y \in DOMAIN hist[j].lanes :
      /\ hist[j].lanes[x].found = hist[j].lanes[y].found
      /\ hist[j].lanes[x].found => hist[j].lanes[x].val = QyVal

\* what holds: the lanes that return found return the value of the slot
\* holding the key, and all lanes agree when every lane takes every pass of
\* the loop
QueryAgreementAligned ==
  \A j \in LatestRet("find") :
    LET B == script[1]
        W == script[2]
        bound == (n_traversals(B, W) - 1) \div 8 + 1
    IN /\ \A x \in DOMAIN hist[j].lanes :
            hist[j].lanes[x].found =>
              /\ hist[j].lanes[x].val = QyVal
              /\ \E b \in 0..(n_buckets - 1) : \E i \in 0..(B - 1) :
                    buckets[b][i].key = QyKey
       /\ bound % W = 0 =>
            \A x, y \in DOMAIN hist[j].lanes :
              hist[j].lanes[x].found = hist[j].lanes[y].found

\* --------------------------------------------------------------------- C33
\* the slots that hold a real key
RealSlots == {s \in SlotIds : IsRealKey(buckets[s[1]][s[2]].key)}
\* C33 (occupancy accounting): get_bucket_fill(b) is the number of tags of
\* bucket b that are neither empty nor tombstone; in every quiescent state
\* the sum over all buckets, get_fill, is the number of slots holding a real
\* key and the number of distinct keys find_with_reference finds.
C33_Occupancy ==
  /\ \A b \in Buckets : get_bucket_fill(b) = LiveTags(b)
  /\ Quiescent =>
       /\ get_fill = Cardinality(RealSlots)
       /\ get_fill = Cardinality({k \in DOMAIN hashes : Found(k)})
\* a quiescent state after a remove, with a tombstone and live keys
C33_Witness ==
  /\ Quiescent
  /\ \E j \in LatestRet("remove") : hist[j].ret
  /\ \E b \in Buckets : \E i \in Slots : metadata[b][i] = get_tombstone_tag
  /\ get_fill > 0

\* --------------------------------------------------------------------- C34
\* group g is bound to return true: it has claimed a tag and not yet stored
\* its pair, or has stored and is at the unlock
Committed(l) == l.pc = "write" \/ (l.pc = "unlock" /\ l.ret)
\* a step of group g inside upsert_replace
FailedUpsertStep(g) ==
  LET l == grp[g]
      n == grp'[g]
      b0 == bucket_0(l)
  IN (l.op = "upsert" /\ n # l) =>
       \* a step that changes a tag or a slot binds the call to return true
       /\ (metadata' # metadata \/ buckets' # buckets) => Committed(n)
       /\ Committed(l) =>
            \/ Committed(n)
            \/ n = Idle /\ hist'[Len(hist')].kind = "ret" /\ hist'[Len(hist')].ret
       \* the return with false: from the unlock, nothing changes but the
       \* lock bit of the primary bucket, which is released
       /\ (n = Idle /\ ~hist'[Len(hist')].ret) =>
            /\ ~Committed(l) /\ l.pc = "unlock"
            /\ metadata' = metadata /\ buckets' = buckets
            /\ LockHeld(b0)
            /\ locks' = [locks EXCEPT ![b0 \div LockWordBits] = @ \ {b0 % LockWordBits}]
\* C34 (failed upsert has no effect): whenever upsert_replace returns false,
\* that call changed no tag and no slot (no slot is left reserved and
\* unwritten) and the primary bucket's lock bit has been released.
C34_FailedUpsertNoEffect ==
  /\ [][\A g \in Groups : FailedUpsertStep(g)]_vars
  /\ [](\A j \in LatestRet("upsert") : ~hist[j].ret => EffectsOf(j) = {})

\* an upsert has returned false, its lock bit is clear and every tag agrees
\* with its slot
C34_Witness ==
  \E j \in LatestRet("upsert") :
    /\ ~hist[j].ret
    /\ ~LockHeld(get_first_bucket(hashes[hist[j].key]))
    /\ \A b \in Buckets : \A i \in Slots : Aligned(b, i)

\* --------------------------------------------------------------------- C35
\* the two candidate buckets of every key are the same bucket
Coinciding ==
  \A k \in DOMAIN hashes : get_first_bucket(hashes[k]) = get_second_bucket(hashes[k])
\* an upsert that has just returned false left no empty and no tombstone tag
FalseOnlyWhenNoFreeTag ==
  \A j \in LatestRet("upsert") :
    ~hist[j].ret =>
      \A b \in Candidates(hist[j].key) : \A i \in Slots :
        metadata[b][i] \notin {get_empty_tag, get_tombstone_tag}
OneKeyOneSlot == \A k \in OpKeys : Cardinality(Holding(k)) <= 1
\* C35 (coinciding candidate buckets), as stated: with primary = secondary
\* bucket the operations terminate, keep each key in at most one slot, an
\* upsert is followed by a find that returns its value, an upsert that comes
\* after a successful remove returns true, and upsert returns false only when
\* the bucket has no empty or tombstoned slot.
C35_CoincidingAsStated ==
  /\ Coinciding
  /\ OneKeyOneSlot
  /\ C4_RoundTripAlways
  /\ C5_SubsequentUpsert
  /\ FalseOnlyWhenNoFreeTag

\* C35 (coinciding candidate buckets), amended: with primary = secondary
\* bucket, under fair scheduling every upsert_replace, remove and
\* find_with_reference returns and every lock bit is cleared; each key is in
\* at most one slot; a find that follows an upsert that returned true returns
\* its value; after a successful remove the key is not found, and an upsert
\* that follows with no operation in between returns true and is found; and
\* upsert returns false only when the bucket has no empty or tombstoned slot.
C35_CoincidingBuckets ==
  /\ \A g \in Groups : (grp[g].op # "idle") ~> (grp[g].op = "idle")
  /\ (LockBits # {}) ~> (LockBits = {})
  /\ [](/\ Coinciding
        /\ OneKeyOneSlot
        /\ C4_RoundTrip
        /\ C5_DeletionVisibility
        /\ FalseOnlyWhenNoFreeTag)

\* in the table of one bucket an upsert of key 1 went through the two-bucket
\* loop (both probes on bucket 0) and stored its pair, and the find that
\* followed returned its value
C35_Witness ==
  /\ n_buckets = 1
  /\ \E j \in LatestRet("find") : \E u \in TrueRets("upsert") :
       /\ hist[u].key = hist[j].key /\ u < InvOf(j)
       /\ hist[j].ret /\ hist[j].rval = hist[u].val
       /\ \E m \in EffectsOf(u) : hist[m].how = "insert" /\ hist[m].i >= 6

\* --------------------------------------------------------------------- C36
\* the lock bits of the two words, as <<word, bit>>
LkBits == {wb \in (0..1) \X (0..(LockWordBits - 1)) : wb[2] \in locks[wb[1]]}
\* a step of caller g inside stall_lock_one_thread or unlock_bucket_one_thread
LockFrameStep(g) ==
  LET l == grp[g]
      n == grp'[g]
      mine == <<l.cur \div LockWordBits, l.cur % LockWordBits>>
  IN (l.op = "lock" /\ n # l) =>
       \* every other bit of either word is as it was
       /\ \A w \in 0..1 : \A bit \in 0..(LockWordBits - 1) :
            <<w, bit>> # mine => (bit \in locks'[w] <=> bit \in locks[w])
       \* stall_lock returns with the bit set, having found it clear
       /\ n.pc = "held" => l.pc = "spin" /\ mine \notin LkBits /\ mine \in LkBits'
       \* unlock clears it
       /\ n = Idle => l.pc = "held" /\ mine \notin LkBits'
\* C36 (lock frame): stall_lock(b) and unlock(b) change only bit b % 64 of
\* lock word b / 64; under any interleaving of lock and unlock calls on
\* different buckets that share a lock word no other bucket's bit is set,
\* cleared or lost: the set bits are those of the holders.
C36_LockFrame ==
  /\ [][\A g \in Groups : LockFrameStep(g)]_vars
  /\ [](LkBits = {<<b \div LockWordBits, b % LockWordBits>> :
                    b \in script[1] \cup {grp[g].cur : g \in {h \in Groups : grp[h].pc = "held"}}})

\* two callers hold buckets 1 and 63, whose bits share word 0 with the bit
\* of bucket 0 set by another holder, while bucket 64 is clear in word 1
C36_Witness ==
  /\ \E g, h \in Groups :
       /\ grp[g].pc = "held" /\ grp[g].cur = 1
       /\ grp[h].pc = "held" /\ grp[h].cur = LockWordBits - 1
  /\ locks[0] = {0, 1, LockWordBits - 1} /\ locks[1] = {}
  /\ nops = 2

\* --------------------------------------------------------------------- C37
\* group g is inside a locked operation on a key whose primary bucket is the
\* one of a key it has locked itself with lock_key
Nested(g) ==
  /\ grp[g].op \in {"upsert", "remove"}
  /\ \E k \in KeysLockedBy(g) :
       get_first_bucket(hashes[k]) = get_first_bucket(hashes[grp[g].key])
\* C37 (the bucket lock is not re-entrant): a group that holds a bucket's
\* lock through lock_key(k) and calls upsert_replace or remove on a key with
\* the same primary bucket stays in stall_lock and never returns, while the
\* no-lock operations called in the same situation return; lock_key(k) and
\* unlock_key(k) address the same lock bit.
C37_NotReentrant ==
  /\ [](\A g \in Groups : Nested(g) => grp[g].pc = "lock")
  /\ [][\A g \in Groups : Nested(g) => Nested(g)']_vars
  /\ \A g \in Groups : (grp[g].op \in NoLockOps) ~> (grp[g].op = "idle")
  /\ [](\A j \in LatestRet("unlock_key") :
          LET m == Max({x \in 1..j : hist[x].kind = "ret" /\ hist[x].g = hist[j].g
                                      /\ hist[x].op = "lock_key"})
          IN /\ hist[m].key = hist[j].key
             /\ hist[m].rval = hist[j].rval
             /\ hist[j].rval = get_first_bucket(hashes[hist[j].key]))
  /\ [](\A j \in LatestRet("lock_key") : LockHeld(hist[j].rval))

\* a group that locked key 1 with lock_key has run upsert_no_lock to its
\* return and is now in stall_lock of an upsert_replace of key 2^16, whose
\* primary bucket is that of key 1
C37_Witness ==
  \E g \in Groups :
    /\ Nested(g) /\ grp[g].op = "upsert" /\ grp[g].key # 1
    /\ KeysLockedBy(g) = {1}
    /\ \E j \in DOMAIN hist :
         /\ hist[j].kind = "ret" /\ hist[j].g = g /\ hist[j].op = "upsert_no_lock"
         /\ hist[j].ret
         /\ \E m \in 1..j : hist[m].kind = "ret" /\ hist[m].g = g /\ hist[m].op = "lock_key"

\* --------------------------------------------------------------------- C38
\* the latest call on key k that changed whether or what the table holds for k
IntLastWrite(k, j) ==
  {m \in 1..(j - 1) :
     /\ hist[m].key = k /\ hist[m].ret /\ hist[m].op \in {"upsert", "remove"}
     /\ \A x \in (m + 1)..(j - 1) :
          ~(hist[x].key = k /\ hist[x].ret /\ hist[x].op \in {"upsert", "remove"})}
HbClaimers(i) == {g \in Groups : grp[g].pc = "ib_store" /\ grp[g].cur = i}
\* the slots in holding state
HbHeld == {i \in Slots : buckets[0][i].key = holdingKey}
\* one call, one attempt: on the lowest candidate of its masks, and the
\* call's result is the attempt's
HbOneAttempt ==
  \A j \in LatestRet("insert_ballots") :
    LET c == hist[InvOf(j)]
        A == EffectsOf(j)
    IN IF c.e \cup c.t = {} THEN A = {} /\ ~hist[j].ret
       ELSE /\ Cardinality(A) = 1
            /\ \A a \in A : hist[a].i = Min(c.e \cup c.t) /\ hist[a].ret = hist[j].ret
\* a slot enters holding state from the empty or the tombstone key, and a
\* slot in holding state is changed by its claimer only, which writes its pair
HbSlotStep(i) ==
  buckets'[0][i] # buckets[0][i] =>
    /\ buckets'[0][i].key = holdingKey => buckets[0][i].key \in {defaultKey, tombstoneKey}
    /\ buckets[0][i].key = holdingKey =>
         \E g \in HbClaimers(i) :
           /\ grp'[g].op = "idle"
           /\ buckets'[0][i] = [key |-> grp[g].key, val |-> grp[g].val]
\* C39 (holding state of p2_md_bucket::insert_ballots): a call makes exactly
\* one claim attempt, on the lowest candidate slot, by CAS of the slot key
\* from the empty or tombstone key to holdingKey = tombstoneKey - 1, and
\* returns whether it succeeded; only the group whose CAS succeeded writes the
\* slot's pair; a slot in holding state matches no legal key in query or
\* erase; every slot that enters holding state leaves it when its claimer
\* writes the pair.
C39_HoldingState ==
  /\ holdingKey = tombstoneKey - 1
  /\ []HbOneAttempt
  /\ [](\A i \in Slots : (i \in HbHeld <=> HbClaimers(i) # {})
                         /\ Cardinality(HbClaimers(i)) <= 1)
  /\ [][\A i \in Slots : HbSlotStep(i)]_vars
  /\ [](\A i \in HbHeld : \A k \in OpKeys \cup FillKeys :
          ~hb_found_ballot(buckets[0][i].key, k))
  /\ [](\A j \in LatestRet("query") \cup LatestRet("erase") :
          hist[j].ret => hist[j].i \notin HbHeld)
  /\ \A i \in Slots : (i \in HbHeld) ~> (i \notin HbHeld /\ IsRealKey(buckets[0][i].key))

\* two groups called with the same masks: one has claimed the lowest
\* candidate, which is in holding state, and the other's CAS on that slot
\* failed and its call has returned false
C39_Witness ==
  \E j \in LatestRet("insert_ballots") :
    /\ ~hist[j].ret
    /\ \E a \in EffectsOf(j) : hist[a].i \in HbHeld /\ ~hist[a].ret
    /\ \E g \in Groups : grp[g].pc = "ib_store"

\* --------------------------------------------------------------------- C40
\* the primary and the secondary index of key k, as the two halves of its
\* hash reduced by the number of buckets
BsPrimary(k) == hashes[k][1] % n_buckets
BsSecondary(k) == hashes[k][2] % n_buckets
\* C40 (bucket selection): for every key, seed and n_buckets >= 1 the primary
\* index is (hash mod 2^32) mod n_buckets and the secondary index is
\* (hash div 2^32) mod n_buckets; both lie in [0, n_buckets); no step on
\* slots, tags or locks changes them; and every operation on a key works on
\* these buckets: a group past stall_lock holds the bit of the primary index,
\* and the key is held by slots of the two buckets only.
C40_BucketSelection ==
  /\ [](\A k \in OpKeys :
          /\ get_first_bucket(hashes[k]) = BsPrimary(k)
          /\ get_second_bucket(hashes[k]) = BsSecondary(k)
          /\ get_first_bucket(hashes[k]) \in 0..(n_buckets - 1)
          /\ get_second_bucket(hashes[k]) \in 0..(n_buckets - 1))
  /\ [][\A k \in OpKeys :
          /\ get_first_bucket(hashes[k])' = get_first_bucket(hashes[k])
          /\ get_second_bucket(hashes[k])' = get_second_bucket(hashes[k])]_vars
  /\ [](\A g \in Groups :
          (grp[g].op \in {"upsert", "remove"} /\ grp[g].pc # "lock")
             => /\ LockHeld(BsPrimary(grp[g].key))
                /\ bucket_0(grp[g]) = BsPrimary(grp[g].key)
                /\ bucket_1(grp[g]) = BsSecondary(grp[g].key))
  /\ [](\A k \in OpKeys : \A s \in SlotIds :
          buckets[s[1]][s[2]].key = k => s[1] \in {BsPrimary(k), BsSecondary(k)})

\* in a table of three buckets a key whose hash halves are 4 and 3, upserted
\* before, is held by a slot of bucket 4 mod 3 while a remove of the key holds
\* the lock of that bucket
C40_Witness ==
  \E g \in Groups :
    /\ n_buckets = 3 /\ grp[g].op = "remove" /\ grp[g].pc # "lock"
    /\ hashes[grp[g].key] = <<4, 3>>
    /\ LockBits = {1}
    /\ \E i \in Slots : buckets[1][i].key = grp[g].key
    /\ \E j \in DOMAIN hist : hist[j].kind = "ret" /\ hist[j].op = "upsert"
                               /\ hist[j].key = grp[g].key /\ hist[j].ret

====
